---- MODULE Spec2Model ----
(***************************************************************************)
(* logitech-led-control: the protocol encoding layer (packet builders,     *)
(* effect translator, key-set encoder) and the KeyboardApi facade that     *)
(* forwards the built reports to the HID / libusb transport.               *)
(***************************************************************************)
EXTENDS Integers, Sequences, FiniteSets, TLC

(* ------------------------------------------------------------------ *)
(* Option<T>                                                          *)
(* ------------------------------------------------------------------ *)
None == [some |-> FALSE]

Some(v) == [some |-> TRUE, val |-> v]

(* ------------------------------------------------------------------ *)
(* keyboard/model.rs, keyboard/types.rs, keyboard/effects.rs: enums   *)
(* ------------------------------------------------------------------ *)
KeyboardModel ==
  {"Unknown", "G213", "G410", "G413", "G512", "G513",
   "G610", "G810", "G815", "G910", "GPro"}

Key ==
  [
    Logo |-> 1, Logo2 |-> 2, Backlight |-> 257, Game |-> 258, Caps |-> 259,
    Scroll |-> 260, Num |-> 261, Next |-> 693, Prev |-> 694, Stop |-> 695,
    Play |-> 717, Mute |-> 738, G1 |-> 769, G2 |-> 770, G3 |-> 771,
    G4 |-> 772, G5 |-> 773, G6 |-> 774, G7 |-> 775, G8 |-> 776,
    G9 |-> 777, A |-> 1028, B |-> 1029, C |-> 1030, D |-> 1031,
    E |-> 1032, F |-> 1033, G |-> 1034, H |-> 1035, I |-> 1036,
    J |-> 1037, K |-> 1038, L |-> 1039, M |-> 1040, N |-> 1041,
    O |-> 1042, P |-> 1043, Q |-> 1044, R |-> 1045, S |-> 1046,
    T |-> 1047, U |-> 1048, V |-> 1049, W |-> 1050, X |-> 1051,
    Y |-> 1052, Z |-> 1053, N1 |-> 1054, N2 |-> 1055, N3 |-> 1056,
    N4 |-> 1057, N5 |-> 1058, N6 |-> 1059, N7 |-> 1060, N8 |-> 1061,
    N9 |-> 1062, N0 |-> 1063, Enter |-> 1064, Esc |-> 1065, Backspace |-> 1066,
    Tab |-> 1067, Space |-> 1068, Minus |-> 1069, Equal |-> 1070, OpenBracket |-> 1071,
    CloseBracket |-> 1072, Backslash |-> 1073, Dollar |-> 1074, Semicolon |-> 1075, Quote |-> 1076,
    Tilde |-> 1077, Comma |-> 1078, Period |-> 1079, Slash |-> 1080, CapsLock |-> 1081,
    F1 |-> 1082, F2 |-> 1083, F3 |-> 1084, F4 |-> 1085, F5 |-> 1086,
    F6 |-> 1087, F7 |-> 1088, F8 |-> 1089, F9 |-> 1090, F10 |-> 1091,
    F11 |-> 1092, F12 |-> 1093, PrintScreen |-> 1094, ScrollLock |-> 1095, PauseBreak |-> 1096,
    Insert |-> 1097, Home |-> 1098, PageUp |-> 1099, Del |-> 1100, End |-> 1101,
    PageDown |-> 1102, ArrowRight |-> 1103, ArrowLeft |-> 1104, ArrowBottom |-> 1105, ArrowTop |-> 1106,
    NumLock |-> 1107, NumSlash |-> 1108, NumAsterisk |-> 1109, NumMinus |-> 1110, NumPlus |-> 1111,
    NumEnter |-> 1112, Num1 |-> 1113, Num2 |-> 1114, Num3 |-> 1115, Num4 |-> 1116,
    Num5 |-> 1117, Num6 |-> 1118, Num7 |-> 1119, Num8 |-> 1120, Num9 |-> 1121,
    Num0 |-> 1122, NumDot |-> 1123, IntlBackslash |-> 1124, Menu |-> 1125, AbntSlash |-> 1159,
    CtrlLeft |-> 1248, ShiftLeft |-> 1249, AltLeft |-> 1250, WinLeft |-> 1251, CtrlRight |-> 1252,
    ShiftRight |-> 1253, AltRight |-> 1254, WinRight |-> 1255
  ]

\* Key::iter(): the scan codes in declaration order
KeyIter ==
  <<
    1, 2, 257, 258, 259, 260, 261, 693, 694, 695, 717, 738,
    769, 770, 771, 772, 773, 774, 775, 776, 777, 1028, 1029, 1030,
    1031, 1032, 1033, 1034, 1035, 1036, 1037, 1038, 1039, 1040, 1041, 1042,
    1043, 1044, 1045, 1046, 1047, 1048, 1049, 1050, 1051, 1052, 1053, 1054,
    1055, 1056, 1057, 1058, 1059, 1060, 1061, 1062, 1063, 1064, 1065, 1066,
    1067, 1068, 1069, 1070, 1071, 1072, 1073, 1074, 1075, 1076, 1077, 1078,
    1079, 1080, 1081, 1082, 1083, 1084, 1085, 1086, 1087, 1088, 1089, 1090,
    1091, 1092, 1093, 1094, 1095, 1096, 1097, 1098, 1099, 1100, 1101, 1102,
    1103, 1104, 1105, 1106, 1107, 1108, 1109, 1110, 1111, 1112, 1113, 1114,
    1115, 1116, 1117, 1118, 1119, 1120, 1121, 1122, 1123, 1124, 1125, 1159,
    1248, 1249, 1250, 1251, 1252, 1253, 1254, 1255
  >>

\* the group taken from the wrong shift: `self as u16 >> 4`
KeyGroupOf_shift4(key) == (key \div 16) % 256

\* Key::group: the high byte of the scan code
KeyGroupOf(key) == (key \div 256) % 256

\* `key as u16 as u8`: the low byte of the scan code
KeyLow(key) == key % 256

KeyGroup ==
  [Logo |-> 0, Indicators |-> 1, Multimedia |-> 2, GKeys |-> 3, FKeys |-> 4,
   Modifiers |-> 5, Functions |-> 6, Arrows |-> 7, Numeric |-> 8, Keys |-> 9]

KeyGroupIter ==
  <<KeyGroup.Logo, KeyGroup.Indicators, KeyGroup.Multimedia, KeyGroup.GKeys,
    KeyGroup.FKeys, KeyGroup.Modifiers, KeyGroup.Functions, KeyGroup.Arrows,
    KeyGroup.Numeric, KeyGroup.Keys>>

Color(r, g, b) == [red |-> r, green |-> g, blue |-> b]

KeyValue(k, c) == [key |-> k, color |-> c]

NativeEffectGroup ==
  [Off |-> 0, Color |-> 1, Breathing |-> 2, Cycle |-> 3, Waves |-> 4, Ripple |-> 5]

\* NativeEffect discriminants: group << 8, the wave variants counting on
NativeEffect ==
  [Off |-> 0,
   Color |-> NativeEffectGroup.Color * 256,
   Breathing |-> NativeEffectGroup.Breathing * 256,
   Cycle |-> NativeEffectGroup.Cycle * 256,
   Waves |-> NativeEffectGroup.Waves * 256,
   HWave |-> NativeEffectGroup.Waves * 256 + 1,
   VWave |-> NativeEffectGroup.Waves * 256 + 2,
   CWave |-> NativeEffectGroup.Waves * 256 + 3,
   Ripple |-> NativeEffectGroup.Ripple * 256]

NativeEffectSet ==
  {NativeEffect.Off, NativeEffect.Color, NativeEffect.Breathing, NativeEffect.Cycle,
   NativeEffect.Waves, NativeEffect.HWave, NativeEffect.VWave, NativeEffect.CWave,
   NativeEffect.Ripple}

\* NativeEffect::group
EffectGroupOf(effect) == (effect \div 256) % 256

NativeEffectPart == [All |-> 255, Keys |-> 0, Logo |-> 1]

NativeEffectStorage == [None |-> 0, User |-> 1]

StartupMode == [Wave |-> 1, Color |-> 2]

OnBoardMode == [Board |-> 1, Software |-> 2]

(* ------------------------------------------------------------------ *)
(* keyboard/spec.rs: the static per-model protocol table              *)
(* ------------------------------------------------------------------ *)
\* ModelSpec::empty
EmptyModelSpec ==
  [commit |-> None, group_addresses |-> <<>>, effect_params |-> None,
   mr_header |-> None, mn_header |-> None, mn_map |-> None,
   gkeys_header |-> None, startup_header |-> None, onboard_header |-> None,
   keys_header |-> None, region_header |-> None]

\* ModelSpec::with_gx_defaults
with_gx_defaults(s, bank) ==
  [s EXCEPT !.effect_params = Some(<<bank, 60>>),
            !.startup_header = Some(<<17, 255, 13, 90, 0, 1>>)]

ADDR_GX ==
  << <<0, <<17, 255, 12, 58, 0, 16, 0, 1>> >>,
     <<1, <<18, 255, 12, 58, 0, 64, 0, 5>> >>,
     <<4, <<18, 255, 15, 61, 0, 1, 0, 14>> >> >>

ADDR_G610_G810 ==
  << <<0, <<17, 255, 12, 58, 0, 16, 0, 1>> >>,
     <<1, <<18, 255, 12, 58, 0, 64, 0, 5>> >>,
     <<4, <<18, 255, 15, 61, 0, 1, 0, 14>> >>,
     <<2, <<18, 255, 12, 58, 0, 2, 0, 5>> >> >>

ADDR_G815 == << <<0, <<17, 255, 16, 28>> >> >>

ADDR_G910 ==
  << <<0, <<17, 255, 15, 58, 0, 16, 0, 2>> >>,
     <<1, <<18, 255, 12, 58, 0, 64, 0, 5>> >>,
     <<3, <<18, 255, 15, 62, 0, 4, 0, 9>> >>,
     <<4, <<18, 255, 15, 61, 0, 1, 0, 14>> >> >>

MN_MAP_G815 == << <<1, 1>>, <<2, 2>>, <<3, 4>> >>

GxSpec(bank) ==
  with_gx_defaults([EmptyModelSpec EXCEPT !.commit = Some(<<17, 255, 12, 90>>),
                                          !.group_addresses = ADDR_GX], bank)

MODEL_SPECS ==
  << \* Unknown
     EmptyModelSpec,
     \* G213
     [with_gx_defaults([EmptyModelSpec EXCEPT !.group_addresses = ADDR_GX], 12)
        EXCEPT !.region_header = Some(<<17, 255, 12, 58>>)],
     \* G410
     GxSpec(13),
     \* G413
     with_gx_defaults([EmptyModelSpec EXCEPT !.group_addresses = ADDR_GX], 12),
     \* G512
     GxSpec(13),
     \* G513
     GxSpec(13),
     \* G610
     [GxSpec(13) EXCEPT !.group_addresses = ADDR_G610_G810],
     \* G810
     [GxSpec(13) EXCEPT !.group_addresses = ADDR_G610_G810],
     \* G815
     [EmptyModelSpec EXCEPT !.commit = Some(<<17, 255, 16, 127>>),
                            !.group_addresses = ADDR_G815,
                            !.effect_params = Some(<<15, 28>>),
                            !.mr_header = Some(<<17, 255, 12, 12>>),
                            !.mn_header = Some(<<17, 255, 11, 28>>),
                            !.mn_map = Some(MN_MAP_G815),
                            !.gkeys_header = Some(<<17, 255, 10, 43>>),
                            !.onboard_header = Some(<<17, 255, 17, 26>>),
                            !.keys_header = Some(<<17, 255, 16, 108>>)],
     \* G910
     [EmptyModelSpec EXCEPT !.commit = Some(<<17, 255, 15, 93>>),
                            !.group_addresses = ADDR_G910,
                            !.effect_params = Some(<<16, 60>>),
                            !.mr_header = Some(<<17, 255, 10, 14>>),
                            !.mn_header = Some(<<17, 255, 9, 30>>),
                            !.gkeys_header = Some(<<17, 255, 8, 46>>),
                            !.startup_header = Some(<<17, 255, 16, 94, 0, 1>>)],
     \* GPro
     GxSpec(13) >>

\* the ordinal counted from one
ModelOrdinal_from_one(model) ==
  CASE model = "Unknown" -> 1 [] model = "G213" -> 2 [] model = "G410" -> 3
    [] model = "G413" -> 4 [] model = "G512" -> 5 [] model = "G513" -> 6
    [] model = "G610" -> 7 [] model = "G810" -> 8 [] model = "G815" -> 9
    [] model = "G910" -> 10 [] model = "GPro" -> 11

\* `self as usize` of the #[repr(u8)] enum
ModelOrdinal(model) ==
  CASE model = "Unknown" -> 0 [] model = "G213" -> 1 [] model = "G410" -> 2
    [] model = "G413" -> 3 [] model = "G512" -> 4 [] model = "G513" -> 5
    [] model = "G610" -> 6 [] model = "G810" -> 7 [] model = "G815" -> 8
    [] model = "G910" -> 9 [] model = "GPro" -> 10

\* KeyboardModel::spec
spec(model) == MODEL_SPECS[ModelOrdinal(model) + 1]

(* ------------------------------------------------------------------ *)
(* keyboard/packet.rs                                                 *)
(* ------------------------------------------------------------------ *)
RECURSIVE Zeros(_)
Zeros(n) == IF n <= 0 THEN <<>> ELSE <<0>> \o Zeros(n - 1)

\* Vec::truncate(size) in place of resize: a shorter vector stays short
pad_truncate(data, size) ==
  IF Len(data) >= size THEN SubSeq(data, 1, size) ELSE data

\* Vec::resize(size, 0x00): truncates a longer vector, zero-fills a shorter one
pad(data, size) ==
  IF Len(data) >= size THEN SubSeq(data, 1, size)
  ELSE data \o Zeros(size - Len(data))

PKT_COMMIT_GX == <<17, 255, 12, 90>>
PKT_COMMIT_G815 == <<17, 255, 16, 127>>
PKT_COMMIT_G910 == <<17, 255, 15, 93>>

PKT_ADDR_0 == <<17, 255, 12, 58, 0, 16, 0, 1>>
PKT_ADDR_1 == <<18, 255, 12, 58, 0, 64, 0, 5>>
PKT_ADDR_2 == <<18, 255, 12, 58, 0, 2, 0, 5>>
PKT_ADDR_4C == <<18, 255, 12, 58, 0, 1, 0, 14>>
PKT_ADDR_4F == <<18, 255, 15, 61, 0, 1, 0, 14>>
PKT_ADDR_G910_0 == <<17, 255, 15, 58, 0, 16, 0, 2>>
PKT_ADDR_G910_3 == <<18, 255, 15, 62, 0, 4, 0, 9>>
PKT_ADDR_G815 == <<17, 255, 16, 28>>

GxModels == {"G410", "G512", "G513", "G610", "G810", "GPro"}

\* the Gx commit header given to the whole G-series of spec.rs, G213/G413 too
commit_packet_gx_family(model) ==
  IF model \in GxModels \cup {"G213", "G413"} THEN Some(pad(PKT_COMMIT_GX, 20))
  ELSE IF model = "G815" THEN Some(pad(PKT_COMMIT_G815, 20))
  ELSE IF model = "G910" THEN Some(pad(PKT_COMMIT_G910, 20))
  ELSE None

commit_packet(model) ==
  IF model \in GxModels THEN Some(pad(PKT_COMMIT_GX, 20))
  ELSE IF model = "G815" THEN Some(pad(PKT_COMMIT_G815, 20))
  ELSE IF model = "G910" THEN Some(pad(PKT_COMMIT_G910, 20))
  ELSE None

group_address(model, group) ==
  IF model \in GxModels /\ group = 0 THEN Some(PKT_ADDR_0)
  ELSE IF model \in GxModels \cup {"G910"} /\ group = 1 THEN Some(PKT_ADDR_1)
  ELSE IF model \in GxModels /\ group = 4 THEN Some(PKT_ADDR_4C)
  ELSE IF model \in {"G610", "G810"} /\ group = 2 THEN Some(PKT_ADDR_2)
  ELSE IF model = "G815" THEN Some(PKT_ADDR_G815)
  ELSE IF model = "G910" /\ group = 0 THEN Some(PKT_ADDR_G910_0)
  ELSE IF model = "G910" /\ group = 3 THEN Some(PKT_ADDR_G910_3)
  ELSE IF model = "G910" /\ group = 4 THEN Some(PKT_ADDR_4F)
  ELSE None

wrapping_add(a, b) == (a + b) % 256

wrapping_sub(a, b) == (a - b + 256) % 256

\* every indicator and every G-key left without an identifier
G815NoId_groups_1_3 ==
  {Key.Logo2, Key.Stop, Key.Backlight, Key.Game, Key.Caps, Key.Scroll, Key.Num,
   Key.G1, Key.G2, Key.G3, Key.G4, Key.G5, Key.G6, Key.G7, Key.G8, Key.G9}

\* the keys of the first match arm: `.. => return None`
G815NoId ==
  {Key.Logo2, Key.Game, Key.Caps, Key.Scroll, Key.Num, Key.Stop,
   Key.G6, Key.G7, Key.G8, Key.G9}

g815_key_id(key) ==
  LET low == KeyLow(key) IN
  IF key \in G815NoId THEN None
  ELSE IF key = Key.Play THEN Some(155)
  ELSE IF key = Key.Mute THEN Some(156)
  ELSE IF key = Key.Next THEN Some(157)
  ELSE IF key = Key.Prev THEN Some(158)
  ELSE IF key \in {Key.CtrlLeft, Key.ShiftLeft, Key.AltLeft, Key.WinLeft,
                   Key.CtrlRight, Key.ShiftRight, Key.AltRight, Key.WinRight}
       THEN Some(wrapping_sub(low, 120))
  ELSE IF KeyGroupOf(key) = 0 THEN Some(wrapping_add(low, 209))
  ELSE IF KeyGroupOf(key) = 1 THEN Some(wrapping_add(low, 152))
  ELSE IF KeyGroupOf(key) = 3 THEN Some(wrapping_add(low, 179))
  ELSE IF KeyGroupOf(key) = 4 THEN Some(wrapping_sub(low, 3))
  ELSE None

\* iter().take(n)
Take(s, n) == SubSeq(s, 1, IF Len(s) < n THEN Len(s) ELSE n)

\* `if let Some(id) = g815_key_id(kv.key) { data.push(id); }`
PushId(id) == IF id.some THEN <<id.val>> ELSE <<>>

RECURSIVE G815KeyIds(_)
G815KeyIds(keys) ==
  IF keys = <<>> THEN <<>>
  ELSE PushId(g815_key_id(Head(keys).key)) \o G815KeyIds(Tail(keys))

RECURSIVE KeyQuads(_)
KeyQuads(keys) ==
  IF keys = <<>> THEN <<>>
  ELSE <<KeyLow(Head(keys).key), Head(keys).color.red,
         Head(keys).color.green, Head(keys).color.blue>> \o KeyQuads(Tail(keys))

\* the sentinel left out
G815Sentinel_never(data) == data

\* `if data.len() < 20 { data.push(0xff); }`
G815Sentinel(data) == IF Len(data) < 20 THEN data \o <<255>> ELSE data

\* size = if group == 0 { 20 } else { 64 }
ReportSize(group) == IF group = 0 THEN 20 ELSE 64

\* max_keys = (size - 8) / 4
MaxKeys(group) == (ReportSize(group) - 8) \div 4

\* the generic builder driven by the spec.rs address table, without the
\* G213 | G413 arm
set_keys_packet_by_table(model, keys) ==
  IF keys = <<>> THEN None
  ELSE
    LET group == KeyGroupOf(keys[1].key)
        rows == {i \in DOMAIN spec(model).group_addresses :
                   spec(model).group_addresses[i][1] = group}
    IN IF rows = {} THEN None
       ELSE Some(pad(spec(model).group_addresses[CHOOSE i \in rows : TRUE][2]
                       \o KeyQuads(Take(keys, MaxKeys(group))), ReportSize(group)))

set_keys_packet(model, keys) ==
  IF keys = <<>> THEN None
  ELSE IF model \in {"G213", "G413"} THEN None
  ELSE IF model = "G815" THEN
    LET color == keys[1].color IN
    IF \E i \in 1..Len(keys) : keys[i].color # color THEN None
    ELSE Some(pad(G815Sentinel(<<17, 255, 16, 108, color.red, color.green, color.blue>>
                                 \o G815KeyIds(Take(keys, 13))), 20))
  ELSE
    LET group == KeyGroupOf(keys[1].key) IN
    IF \E i \in 1..Len(keys) : KeyGroupOf(keys[i].key) # group THEN None
    ELSE IF ~group_address(model, group).some THEN None
    ELSE Some(pad(group_address(model, group).val
                    \o KeyQuads(Take(keys, MaxKeys(group))), ReportSize(group)))

region_packet(model, region, color) ==
  IF model = "G213"
  THEN Some(pad(<<17, 255, 12, 58, region, 1, color.red, color.green, color.blue>>, 20))
  ELSE None

\* `period.as_millis() as u16`: the cast keeps the low 16 bits
PeriodAsU16(period) == period % 65536

\* the (bank, parameter-address) pair of the effect register
EffectRegister(model) ==
  IF model \in {"G213", "G413"} THEN Some(<<12, 60>>)
  ELSE IF model \in GxModels THEN Some(<<13, 60>>)
  ELSE IF model = "G815" THEN Some(<<15, 28>>)
  ELSE IF model = "G910" THEN Some(<<16, 60>>)
  ELSE None

native_effect_packet(model, effect, part, period, color, storage) ==
  IF part = NativeEffectPart.All THEN None
  ELSE IF ~EffectRegister(model).some THEN None
  ELSE
    LET p == EffectRegister(model).val
        per_ms == PeriodAsU16(period)
        effect_group == EffectGroupOf(effect)
    IN Some(pad(<<17, 255, p[1], p[2], part, effect_group,
                  color.red, color.green, color.blue,
                  per_ms \div 256, per_ms % 256,
                  per_ms \div 256, per_ms % 256,
                  effect % 256, 100, per_ms \div 256, storage,
                  0, 0, 0>>, 20))

(* ------------------------------------------------------------------ *)
(* keyboard/effects.rs                                                *)
(* ------------------------------------------------------------------ *)
\* data[i] = v with the source's zero-based offsets
SetByte(data, i, v) == [data EXCEPT ![i + 1] = v]

\* `period.as_millis().try_into().unwrap_or(u16::MAX)`
PeriodSaturatedU16(period) == IF period > 65535 THEN 65535 ELSE period

\* Color::GREEN in place of Color::CYAN
CYAN_green == Color(0, 255, 0)

CYAN == Color(0, 255, 255)

G815_SETUP == pad(<<17, 255, 15, 92, 1, 3, 3>>, 20)

\* Breathing given the subcode of the wave and cycle effects
G815LogoSubcode_breathing_2(effect) ==
  IF effect \in {NativeEffect.Breathing, NativeEffect.CWave, NativeEffect.VWave,
                 NativeEffect.HWave, NativeEffect.Waves, NativeEffect.Cycle} THEN 2
  ELSE IF effect \in {NativeEffect.Ripple, NativeEffect.Off} THEN 0
  ELSE 1

\* `data[5] = match effect { .. }` of the G815 Logo part
G815LogoSubcode(effect) ==
  IF effect = NativeEffect.Breathing THEN 3
  ELSE IF effect \in {NativeEffect.CWave, NativeEffect.VWave, NativeEffect.HWave} THEN 2
  ELSE IF effect \in {NativeEffect.Waves, NativeEffect.Cycle} THEN 2
  ELSE IF effect \in {NativeEffect.Ripple, NativeEffect.Off} THEN 0
  ELSE 1

\* the ripple period written low byte first
G815RipplePeriod_low_first(data, per_ms) ==
  SetByte(SetByte(SetByte(SetByte(data, 9, 0), 10, per_ms % 256),
                  11, per_ms \div 256), 12, 0)

\* `data[9] = 0; data[10] = (per_ms >> 8) as u8; data[11] = (per_ms & 0xff) as u8;
\*  data[12] = 0`
G815RipplePeriod(data, per_ms) ==
  SetByte(SetByte(SetByte(SetByte(data, 9, 0), 10, per_ms \div 256),
                  11, per_ms % 256), 12, 0)

\* the G815 branch of native_effect_packets: the patched descriptor
G815Patch(data0, effect, part, period) ==
  IF part = NativeEffectPart.Keys THEN
    IF effect = NativeEffect.Ripple
    THEN G815RipplePeriod(SetByte(SetByte(data0, 16, 1), 4, 1),
                          PeriodSaturatedU16(period))
    ELSE SetByte(SetByte(data0, 16, 1), 4, 1)
  ELSE IF part = NativeEffectPart.Logo THEN
    IF effect \in {NativeEffect.CWave, NativeEffect.VWave, NativeEffect.HWave}
    THEN SetByte(SetByte(SetByte(SetByte(data0, 16, 1), 4, 0), 13, 100),
                 5, G815LogoSubcode(effect))
    ELSE SetByte(SetByte(SetByte(data0, 16, 1), 4, 0), 5, G815LogoSubcode(effect))
  ELSE SetByte(data0, 16, 1)

\* Option<Packets> flattened by filter_map(..).flatten()
Flatten(opt) == IF opt.some THEN opt.val ELSE <<>>

\* the short-circuit left out: no board is taken to lack a logo
LogoLessModels_none == {}

\* `matches!(model, KeyboardModel::G213 | KeyboardModel::G413)`
LogoLessModels == {"G213", "G413"}

\* the All part expanded back to front
AllParts_logo_first == <<NativeEffectPart.Logo, NativeEffectPart.Keys>>

\* `[NativeEffectPart::Keys, NativeEffectPart::Logo]`: what All expands to
AllParts == <<NativeEffectPart.Keys, NativeEffectPart.Logo>>

RECURSIVE native_effect_packets(_, _, _, _, _, _)
native_effect_packets(model, effect, part, period, color, storage) ==
  IF part = NativeEffectPart.All THEN
    Some(Flatten(native_effect_packets(model, effect, AllParts[1],
                                       period, color, storage))
         \o Flatten(native_effect_packets(model, effect, AllParts[2],
                                          period, color, storage)))
  ELSE IF model \in LogoLessModels /\ part = NativeEffectPart.Logo THEN Some(<<>>)
  ELSE IF ~native_effect_packet(model, effect, part, period, color, storage).some THEN None
  ELSE IF model = "G815" THEN
    Some(<<G815_SETUP,
           G815Patch(native_effect_packet(model, effect, part, period, color, storage).val,
                     effect, part, period)>>)
  ELSE IF EffectGroupOf(effect) = NativeEffectGroup.Waves /\ part = NativeEffectPart.Logo
       THEN native_effect_packets(model, NativeEffect.Color, part, 0, CYAN, storage)
  ELSE Some(<<native_effect_packet(model, effect, part, period, color, storage).val>>)

\* the `part` argument of every nested invocation of native_effect_packets,
\* in call order (the top-level call itself excluded)
RECURSIVE NativeEffectSubcallParts(_, _, _)
NativeEffectSubcallParts(model, effect, part) ==
  IF part = NativeEffectPart.All THEN
    <<AllParts[1]>> \o NativeEffectSubcallParts(model, effect, AllParts[1])
      \o <<AllParts[2]>> \o NativeEffectSubcallParts(model, effect, AllParts[2])
  ELSE IF model \in LogoLessModels /\ part = NativeEffectPart.Logo THEN <<>>
  ELSE IF ~EffectRegister(model).some THEN <<>>
  ELSE IF model = "G815" THEN <<>>
  ELSE IF EffectGroupOf(effect) = NativeEffectGroup.Waves /\ part = NativeEffectPart.Logo
       THEN <<part>> \o NativeEffectSubcallParts(model, NativeEffect.Color, part)
  ELSE <<>>

(* ------------------------------------------------------------------ *)
(* keyboard/device: the transport                                     *)
(* ------------------------------------------------------------------ *)
Backends == {"hid", "libusb"}

\* Keyboard::send_packet: the hid backend rejects lengths other than 0..=20
\* and 64 before writing; `fails` is the outcome of the device write
send_packet(backend, data, fails) ==
  IF backend = "hid" /\ ~(Len(data) <= 20 \/ Len(data) = 64) THEN "Err"
  ELSE IF fails THEN "Err"
  ELSE "Ok"

\* the short report id for every length
wValue_short_only(data) == 529

\* libusb Keyboard::send_packet: wValue of the SET_REPORT transfer, the
\* report type 0x02 over the report id
wValue(data) == IF Len(data) > 20 THEN 530 ELSE 529

\* the outcome of a facade call: its Result, the buffers handed to
\* send_packet (in order), the buffers the transport accepted and the
\* batches handed to set_keys (in order)
Run(result, calls, sent) ==
  [result |-> result, calls |-> calls, sent |-> sent, batches |-> <<>>]

EmptyRun == Run("Ok", <<>>, <<>>)

\* a successful run followed by the run of the rest of the operation
Then(first, rest) ==
  [result |-> rest.result, calls |-> first.calls \o rest.calls,
   sent |-> first.sent \o rest.sent, batches |-> first.batches \o rest.batches]

\* the send loop without `?`: a failed send is remembered, the loop goes on
RECURSIVE SendEach_keep_going(_, _, _, _)
SendEach_keep_going(backend, packets, k, failAt) ==
  IF packets = <<>> THEN EmptyRun
  ELSE
    IF send_packet(backend, Head(packets), k + 1 = failAt) = "Err"
    THEN Then(Run("Err", <<Head(packets)>>, <<>>),
              [SendEach_keep_going(backend, Tail(packets), k + 1, failAt)
                 EXCEPT !.result = "Err"])
    ELSE Then(Run("Ok", <<Head(packets)>>, <<Head(packets)>>),
              SendEach_keep_going(backend, Tail(packets), k + 1, failAt))

\* `for packet in packets { self.send_packet(&packet)?; }`
\* k = number of send_packet calls already made by the operation,
\* failAt = ordinal of the device write that fails (0: none)
RECURSIVE SendEach(_, _, _, _)
SendEach(backend, packets, k, failAt) ==
  IF packets = <<>> THEN EmptyRun
  ELSE
    IF send_packet(backend, Head(packets), k + 1 = failAt) = "Err"
    THEN Run("Err", <<Head(packets)>>, <<>>)
    ELSE Then(Run("Ok", <<Head(packets)>>, <<Head(packets)>>),
              SendEach(backend, Tail(packets), k + 1, failAt))

(* ------------------------------------------------------------------ *)
(* keyboard/api.rs: impl KeyboardApi for Keyboard                     *)
(* ------------------------------------------------------------------ *)
\* slice::chunks_exact(n) in place of chunks(n): the short last chunk is lost
RECURSIVE Chunks_exact(_, _)
Chunks_exact(vals, n) ==
  IF Len(vals) < n THEN <<>>
  ELSE <<SubSeq(vals, 1, n)>> \o Chunks_exact(SubSeq(vals, n + 1, Len(vals)), n)

\* slice::chunks(n)
RECURSIVE Chunks(_, _)
Chunks(vals, n) ==
  IF vals = <<>> THEN <<>>
  ELSE <<Take(vals, n)>> \o Chunks(SubSeq(vals, Len(Take(vals, n)) + 1, Len(vals)), n)

\* Ord for (u8, u8, u8): lexicographic
TupleLess(a, b) ==
  \/ a[1] < b[1]
  \/ a[1] = b[1] /\ a[2] < b[2]
  \/ a[1] = b[1] /\ a[2] = b[2] /\ a[3] < b[3]

\* the partition key reduced to the green channel
ColorTuple_green(c) == <<0, c.green, 0>>

\* the BTreeMap key (red, green, blue) of a batch entry's colour
ColorTuple(c) == <<c.red, c.green, c.blue>>

\* the map iterated in reverse: descending
RECURSIVE BTreeKeysU8_rev(_)
BTreeKeysU8_rev(S) ==
  IF S = {} THEN <<>>
  ELSE LET m == CHOOSE x \in S : \A y \in S : x >= y
       IN <<m>> \o BTreeKeysU8_rev(S \ {m})

\* the keys of a BTreeMap<u8, _> in iteration order: ascending
RECURSIVE BTreeKeysU8(_)
BTreeKeysU8(S) ==
  IF S = {} THEN <<>>
  ELSE LET m == CHOOSE x \in S : \A y \in S : x <= y
       IN <<m>> \o BTreeKeysU8(S \ {m})

\* the keys of a BTreeMap<(u8, u8, u8), _> in iteration order: ascending
RECURSIVE BTreeKeysTuple(_)
BTreeKeysTuple(S) ==
  IF S = {} THEN <<>>
  ELSE LET m == CHOOSE x \in S : \A y \in S \ {x} : TupleLess(x, y)
       IN <<m>> \o BTreeKeysTuple(S \ {m})

\* by_color[t]: the batch entries of colour t, in batch order
ByColor(keys, t) == SelectSeq(keys, LAMBDA kv : ColorTuple(kv.color) = t)

\* the partition collected back to front
ByGroup_reversed(keys, g) ==
  [i \in 1..Len(SelectSeq(keys, LAMBDA kv : KeyGroupOf(kv.key) = g)) |->
     SelectSeq(keys, LAMBDA kv : KeyGroupOf(kv.key) = g)
       [Len(SelectSeq(keys, LAMBDA kv : KeyGroupOf(kv.key) = g)) + 1 - i]]

\* by_group[g]: the batch entries of address group g, in batch order
ByGroup(keys, g) == SelectSeq(keys, LAMBDA kv : KeyGroupOf(kv.key) = g)

\* `if let Some(packet) = ..`: the packet to send, if any
PacketList(opt) == IF opt.some THEN <<opt.val>> ELSE <<>>

\* the packets set_keys_packet yields for the chunks of one partition
RECURSIVE ChunkPackets(_, _)
ChunkPackets(model, chunks) ==
  IF chunks = <<>> THEN <<>>
  ELSE PacketList(set_keys_packet(model, Head(chunks)))
       \o ChunkPackets(model, Tail(chunks))

RECURSIVE G815PartitionPackets(_, _, _)
G815PartitionPackets(model, keys, order) ==
  IF order = <<>> THEN <<>>
  ELSE ChunkPackets(model, Chunks(ByColor(keys, Head(order)), 13))
       \o G815PartitionPackets(model, keys, Tail(order))

RECURSIVE GroupPartitionPackets(_, _, _)
GroupPartitionPackets(model, keys, order) ==
  IF order = <<>> THEN <<>>
  ELSE ChunkPackets(model, Chunks(ByGroup(keys, Head(order)), MaxKeys(Head(order))))
       \o GroupPartitionPackets(model, keys, Tail(order))

\* the buffers set_keys hands to send_packet when no send fails, in order
SetKeysPackets(model, keys) ==
  IF keys = <<>> THEN <<>>
  ELSE IF model \in {"G213", "G413"} THEN <<>>
  ELSE IF model = "G815" THEN
    G815PartitionPackets(model, keys,
      BTreeKeysTuple({ColorTuple(keys[i].color) : i \in 1..Len(keys)}))
  ELSE
    GroupPartitionPackets(model, keys,
      BTreeKeysU8({KeyGroupOf(keys[i].key) : i \in 1..Len(keys)}))

set_keys_run(backend, model, keys, k, failAt) ==
  [SendEach(backend, SetKeysPackets(model, keys), k, failAt)
     EXCEPT !.batches = <<keys>>]

\* KeyGroup::keys: Key::iter().filter(|k| k.group() == self as u8)
KeyGroupKeys(group) == SelectSeq(KeyIter, LAMBDA k : KeyGroupOf(k) = group)

\* group.keys().map(|k| KeyValue { key: k, color }).collect()
GroupBatch(group, color) ==
  LET ks == KeyGroupKeys(group) IN [i \in 1..Len(ks) |-> KeyValue(ks[i], color)]

set_group_keys_run(backend, model, group, color, k, failAt) ==
  set_keys_run(backend, model, GroupBatch(group, color), k, failAt)

\* `for group in KeyGroup::iter() { self.set_group_keys(group, color)?; }`
RECURSIVE SetAllKeysLoop(_, _, _, _, _, _)

\* one iteration without `?`: the result of set_group_keys is dropped
SetAllKeysStep_unchecked(r, backend, model, groups, color, k, failAt) ==
  Then(r, SetAllKeysLoop(backend, model, groups, color, k + Len(r.calls), failAt))

\* one iteration: r is what set_group_keys returned; `?` ends the loop on Err
SetAllKeysStep(r, backend, model, groups, color, k, failAt) ==
  IF r.result = "Err" THEN r
  ELSE Then(r, SetAllKeysLoop(backend, model, groups, color, k + Len(r.calls), failAt))

SetAllKeysLoop(backend, model, groups, color, k, failAt) ==
  IF groups = <<>> THEN EmptyRun
  ELSE SetAllKeysStep(set_group_keys_run(backend, model, Head(groups), color, k, failAt),
                      backend, model, Tail(groups), color, k, failAt)

set_all_keys_run(backend, model, color, failAt) ==
  SetAllKeysLoop(backend, model, KeyGroupIter, color, 0, failAt)

\* `if let Some(packet) = ... { self.send_packet(&packet)?; }`
SendOption(backend, opt, failAt) ==
  SendEach(backend, IF opt.some THEN <<opt.val>> ELSE <<>>, 0, failAt)

mr_packet(model, value) ==
  IF model = "G815" /\ value \in {0, 1} THEN Some(pad(<<17, 255, 12, 12, value>>, 20))
  ELSE IF model = "G910" /\ value \in {0, 1} THEN Some(pad(<<17, 255, 10, 14, value>>, 20))
  ELSE None

\* the M-key number written as it is, M3 as 0x03 instead of the bit 0x04
mn_packet_plain(model, value) ==
  IF model = "G815" /\ value \in {1, 2, 3} THEN Some(pad(<<17, 255, 11, 28, value>>, 20))
  ELSE IF model = "G910" /\ value \in 0..7 THEN Some(pad(<<17, 255, 9, 30, value>>, 20))
  ELSE None

mn_packet(model, value) ==
  IF model = "G815" THEN
    IF value = 1 THEN Some(pad(<<17, 255, 11, 28, 1>>, 20))
    ELSE IF value = 2 THEN Some(pad(<<17, 255, 11, 28, 2>>, 20))
    ELSE IF value = 3 THEN Some(pad(<<17, 255, 11, 28, 4>>, 20))
    ELSE None
  ELSE IF model = "G910" /\ value \in 0..7 THEN Some(pad(<<17, 255, 9, 30, value>>, 20))
  ELSE None

gkeys_mode_packet(model, value) ==
  IF model = "G815" /\ value \in {0, 1} THEN Some(pad(<<17, 255, 10, 43, value>>, 20))
  ELSE IF model = "G910" /\ value \in {0, 1} THEN Some(pad(<<17, 255, 8, 46, value>>, 20))
  ELSE None

startup_mode_packet(model, mode) ==
  IF model \in {"G213", "G410", "G610", "G810", "GPro"}
  THEN Some(pad(<<17, 255, 13, 90, 0, 1>> \o <<mode>>, 20))
  ELSE IF model = "G910" THEN Some(pad(<<17, 255, 16, 94, 0, 1>> \o <<mode>>, 20))
  ELSE None

on_board_mode_packet(model, mode) ==
  IF model = "G815" THEN Some(pad(<<17, 255, 17, 26, mode>>, 20))
  ELSE None

(* ------------------------------------------------------------------ *)
(* keyboard/parser.rs and profile.rs: the line-oriented profile       *)
(* ------------------------------------------------------------------ *)
\* a profile line is the sequence of its whitespace-separated words; the
\* word "#" stands for a comment sign in front of the words after it. The
\* parsers are the source's functions on the words of Words; a word outside
\* Words is not parsed
Words ==
  {"#", "$c1", "$x", "0000ff", "0x10", "1", "200ms", "2s", "80", "a", "board",
   "bogus", "breathing", "c", "c1", "color", "cycle", "fx", "g", "g-keys",
   "g1", "gkeys", "gkm", "k", "keys", "logo", "mn", "mr", "none", "obm", "r",
   "red", "sm", "software", "user", "var", "wave", "x", "all"}

\* COLOR_NAMES.get / `rrggbb` / `rr`; anything else is None
parse_color(val) ==
  CASE val = "red" -> Some(Color(255, 0, 0))
    [] val = "0000ff" -> Some(Color(0, 0, 255))
    [] val = "80" -> Some(Color(128, 128, 128))
    [] val = "c1" -> Some(Color(193, 193, 193))
    [] val \in Words \ {"red", "0000ff", "80", "c1"} -> None

\* KEY_LOOKUP.get(lower)
parse_key(s) ==
  CASE s = "a" -> Some(Key.A)
    [] s = "c" -> Some(Key.C)
    [] s = "g" -> Some(Key.G)
    [] s = "k" -> Some(Key.K)
    [] s = "r" -> Some(Key.R)
    [] s = "x" -> Some(Key.X)
    [] s = "1" -> Some(Key.N1)
    [] s = "logo" -> Some(Key.Logo)
    [] s = "g1" -> Some(Key.G1)
    [] s \in Words \ {"a", "c", "g", "k", "r", "x", "1", "logo", "g1"} -> None

\* KeyGroup::from_str
parse_key_group(s) ==
  CASE s = "logo" -> Some(KeyGroup.Logo)
    [] s = "gkeys" -> Some(KeyGroup.GKeys)
    [] s = "g-keys" -> Some(KeyGroup.GKeys)
    [] s = "keys" -> Some(KeyGroup.Keys)
    [] s \in Words \ {"logo", "gkeys", "g-keys", "keys"} -> None

\* decimal u8, else hexadecimal with an optional 0x
parse_u8(val) ==
  CASE val = "1" -> Some(1)
    [] val = "0x10" -> Some(16)
    [] val = "80" -> Some(80)
    [] val = "a" -> Some(10)
    [] val = "c" -> Some(12)
    [] val = "c1" -> Some(193)
    [] val = "0000ff" -> Some(255)
    [] val \in Words \ {"1", "0x10", "80", "a", "c", "c1", "0000ff"} -> None

parse_startup_mode(s) ==
  CASE s = "wave" -> Some(StartupMode.Wave)
    [] s = "color" -> Some(StartupMode.Color)
    [] s \in Words \ {"wave", "color"} -> None

parse_board_mode(s) ==
  CASE s = "board" -> Some(OnBoardMode.Board)
    [] s = "software" -> Some(OnBoardMode.Software)
    [] s \in Words \ {"board", "software"} -> None

parse_native_effect(s) ==
  CASE s = "color" -> Some(NativeEffect.Color)
    [] s = "breathing" -> Some(NativeEffect.Breathing)
    [] s = "cycle" -> Some(NativeEffect.Cycle)
    [] s \in Words \ {"color", "breathing", "cycle"} -> None

parse_native_effect_part(s) ==
  CASE s = "all" -> Some(NativeEffectPart.All)
    [] s = "keys" -> Some(NativeEffectPart.Keys)
    [] s = "logo" -> Some(NativeEffectPart.Logo)
    [] s \in Words \ {"all", "keys", "logo"} -> None

parse_native_effect_storage(s) ==
  CASE s = "none" -> Some(NativeEffectStorage.None)
    [] s = "user" -> Some(NativeEffectStorage.User)
    [] s \in Words \ {"none", "user"} -> None

\* "<n>ms", "<n>s", or a hex byte times 256 ms; the result in milliseconds
parse_period(val) ==
  CASE val = "200ms" -> Some(200)
    [] val = "2s" -> Some(2000)
    [] val = "80" -> Some(128 * 256)
    [] val = "c1" -> Some(193 * 256)
    [] val = "a" -> Some(10 * 256)
    [] val = "c" -> Some(12 * 256)
    [] val = "1" -> Some(1 * 256)
    [] val \in Words \ {"200ms", "2s", "80", "c1", "a", "c", "1"} -> None

\* `line.truncate(line.find('#'))`: the words in front of the comment sign
RECURSIVE StripComment(_)
StripComment(line) ==
  IF line = <<>> \/ Head(line) = "#" THEN <<>>
  ELSE <<Head(line)>> \o StripComment(Tail(line))

\* tok.strip_prefix('$')
strip_dollar(tok) ==
  CASE tok = "$c1" -> Some("c1")
    [] tok = "$x" -> Some("x")
    [] tok \in Words \ {"$c1", "$x"} -> None

\* one word of a line: a `$name` is replaced by the variable's value if the
\* variable is set, every other word is taken as it is
Substitute(tok, vmap) ==
  IF strip_dollar(tok).some /\ strip_dollar(tok).val \in DOMAIN vmap
  THEN vmap[strip_dollar(tok).val]
  ELSE tok

\* `args`: the words of the line in front of the comment, variables replaced
Tokenize(line, vmap) ==
  [i \in 1..Len(StripComment(line)) |-> Substitute(StripComment(line)[i], vmap)]

\* args.get(i) with the source's zero-based index
ArgGet(args, i) == IF i + 1 <= Len(args) THEN Some(args[i + 1]) ELSE None

\* the match arm of parse_profile a tokenized line is dispatched to
Arm(args) ==
  CASE args = <<>> -> "blank"
    [] args # <<>> /\ args[1] = "var" /\ Len(args) >= 3 -> "var"
    [] args # <<>> /\ args[1] \in {"c", "a", "mr", "mn", "gkm", "sm", "obm"} -> args[1]
    [] args # <<>> /\ args[1] \in {"g", "k", "r", "fx"} /\ Len(args) >= 3 -> args[1]
    [] OTHER -> "unknown"

(* ------------------------------------------------------------------ *)
(* Inputs                                                             *)
(* ------------------------------------------------------------------ *)
\* longest single-group run of a batch (more than one 64-byte report)
MaxRun == 15

\* longest freely mixed batch
MaxMix == 2

\* latest device write that may fail
MaxFailAt == 3

RED == Color(255, 0, 0)

GREEN == Color(0, 255, 0)

BLUE == Color(0, 0, 255)

TestColors == {RED, GREEN, BLUE}

\* keys of four address groups, one of them a G-key the G815 table leaves out
TestKeys == {Key.Logo, Key.Next, Key.G6, Key.A}

TestKVs == {KeyValue(k, c) : k \in TestKeys, c \in {RED, BLUE}}

AddressGroups == 0..4

\* n keys of address group g (cycling through the group), all of colour c
RunBatch(g, n, c) ==
  LET ks == KeyGroupKeys(g)
  IN [i \in 1..n |-> KeyValue(ks[((i - 1) % Len(ks)) + 1], c)]

RunBatches == {RunBatch(g, n, BLUE) : g \in AddressGroups, n \in 1..MaxRun}

MixedBatches == UNION {[1..n -> TestKVs] : n \in 1..MaxMix}

\* a leading entry whose partition sorts after (A, red) or before (Logo, blue)
\* the run that follows it
LedKVs == {KeyValue(Key.A, RED), KeyValue(Key.Logo, BLUE)}

\* one entry followed by a single-group run
LedBatches == {<<kv>> \o b : kv \in LedKVs, b \in RunBatches}

Batches == RunBatches \cup MixedBatches \cup LedBatches

TestValues == {0, 1, 2, 3, 4, 7, 8, 255}

TestRegions == {0, 1, 5}

\* periods in milliseconds, on both sides of the u16 range
TestPeriods == {0, 4660, 65535, 65536, 70000}

\* Keyboard::open only binds a model that lookup_model does not map to Unknown
BoundModels == KeyboardModel \ {"Unknown"}

(* ------------------------------------------------------------------ *)
(* State                                                              *)
(* ------------------------------------------------------------------ *)
VARIABLES
  pc,       \* "open": Keyboard constructed; "ran": a facade call returned;
            \* "closed": the device handle has been taken, the run is over
  backend,  \* the transport compiled in (feature "libusb" or hidapi)
  model,    \* current.model of the Keyboard
  call,     \* the last facade call and its arguments
  calls,    \* buffers that call handed to send_packet, in order
  sent,     \* buffers the transport accepted from that call, in order
  batches,  \* batches that call handed to set_keys, in order
  result,   \* what that call returned
  profile,  \* the call of parse_profile in progress, see ProfileIdle
  toml,     \* the call of load_toml_profile in progress, see TomlIdle
  session   \* the call of with_keyboard in progress, see SessionIdle

vars ==
  <<pc, backend, model, call, calls, sent, batches, result, profile, toml,
    session>>

\* no parse_profile call is in progress. The fields: pc ("idle", "reading":
\* in the read loop, "returned"), the `strict` argument, the locals `vars`
\* and `keys`, the lines read so far, the entries pushed to `keys` so far
\* (with the number of their line), the facade calls made so far (with the
\* number of the line that made them, 0 for the final flush, and what they
\* returned), and what parse_profile returned
ProfileIdle ==
  [pc |-> "idle", strict |-> FALSE, vars |-> <<>>, keys |-> <<>>,
   input |-> <<>>, pushed |-> <<>>, log |-> <<>>, result |-> "none",
   error |-> "none"]

\* no load_toml_profile call was made. The fields: pc ("idle", "returned"),
\* the Profile, the facade calls made with what they returned, and the Result
TomlIdle ==
  [pc |-> "idle", profile |-> <<>>, log |-> <<>>, result |-> "none"]

\* no Keyboard was opened. The fields: pc ("idle", "object": Keyboard::open
\* was called on its own, "returned": with_keyboard has returned), the
\* backend of the build, the arguments of with_keyboard, what the bus
\* answered, SUPPORTED_OVERRIDE, the Keyboard ("none", "open", "dropped"),
\* whether its handle is Some, its kernel_detached, the libusb calls made on
\* interface 1, the calls of close, and the Result
SessionIdle ==
  [pc |-> "idle", backend |-> "none",
   args |-> [vendor_id |-> None, product_id |-> None, protocol |-> None,
             serial |-> None, f |-> "Ok"],
   env |-> [device |-> None, open_ok |-> FALSE, driver |-> "inactive",
            claim_ok |-> FALSE],
   override |-> None, kbd |-> "none", handle |-> FALSE,
   kernel_detached |-> FALSE, usb |-> <<>>, closes |-> 0, result |-> "none"]

NoCall ==
  [op |-> "none", keys |-> <<>>, group |-> 0, color |-> Color(0, 0, 0),
   value |-> 0, effect |-> 0, part |-> 0, period |-> 0, storage |-> 0,
   failAt |-> 0]

Init ==
  /\ pc = "open"
  /\ backend \in Backends
  /\ model \in BoundModels
  /\ call = NoCall
  /\ calls = <<>>
  /\ sent = <<>>
  /\ batches = <<>>
  /\ result = "Ok"
  /\ profile = ProfileIdle
  /\ toml = TomlIdle
  /\ session = SessionIdle

\* the facade call c returned `run`; c.failAt names the device write that
\* failed (0: none), which is one of the writes the call made
Returned(c, run) ==
  /\ c.failAt <= Len(run.calls)
  /\ pc' = "ran"
  /\ call' = c
  /\ calls' = run.calls
  /\ sent' = run.sent
  /\ batches' = run.batches
  /\ result' = run.result
  /\ UNCHANGED <<backend, model, profile, toml, session>>

FailPoints == 0..MaxFailAt

KeySettingOps == {"set_keys", "set_group_keys", "set_all_keys"}

\* main.rs: `kbd.set_..(..)?; if !no_commit { kbd.commit()?; }`
commit ==
  /\ \/ pc = "open"
     \/ pc = "ran" /\ call.op \in KeySettingOps /\ result = "Ok"
  /\ \E f \in FailPoints :
       Returned([NoCall EXCEPT !.op = "commit", !.failAt = f],
                SendOption(backend, commit_packet(model), f))

set_keys ==
  /\ pc = "open"
  /\ \E keys \in Batches \cup {<<>>}, f \in FailPoints :
       Returned([NoCall EXCEPT !.op = "set_keys", !.keys = keys, !.failAt = f],
                set_keys_run(backend, model, keys, 0, f))

set_group_keys ==
  /\ pc = "open"
  /\ \E g \in DOMAIN KeyGroupIter, c \in {RED, BLUE}, f \in FailPoints :
       Returned([NoCall EXCEPT !.op = "set_group_keys", !.group = KeyGroupIter[g],
                               !.color = c, !.failAt = f],
                set_group_keys_run(backend, model, KeyGroupIter[g], c, 0, f))

set_all_keys ==
  /\ pc = "open"
  /\ \E c \in {RED, BLUE}, f \in FailPoints :
       Returned([NoCall EXCEPT !.op = "set_all_keys", !.color = c, !.failAt = f],
                set_all_keys_run(backend, model, c, f))

set_region ==
  /\ pc = "open"
  /\ \E r \in TestRegions, c \in TestColors, f \in FailPoints :
       Returned([NoCall EXCEPT !.op = "set_region", !.value = r, !.color = c,
                               !.failAt = f],
                SendOption(backend, region_packet(model, r, c), f))

set_mr_key ==
  /\ pc = "open"
  /\ \E v \in TestValues, f \in FailPoints :
       Returned([NoCall EXCEPT !.op = "set_mr_key", !.value = v, !.failAt = f],
                SendOption(backend, mr_packet(model, v), f))

set_mn_key ==
  /\ pc = "open"
  /\ \E v \in TestValues, f \in FailPoints :
       Returned([NoCall EXCEPT !.op = "set_mn_key", !.value = v, !.failAt = f],
                SendOption(backend, mn_packet(model, v), f))

set_gkeys_mode ==
  /\ pc = "open"
  /\ \E v \in TestValues, f \in FailPoints :
       Returned([NoCall EXCEPT !.op = "set_gkeys_mode", !.value = v, !.failAt = f],
                SendOption(backend, gkeys_mode_packet(model, v), f))

set_startup_mode ==
  /\ pc = "open"
  /\ \E m \in {StartupMode.Wave, StartupMode.Color}, f \in FailPoints :
       Returned([NoCall EXCEPT !.op = "set_startup_mode", !.value = m, !.failAt = f],
                SendOption(backend, startup_mode_packet(model, m), f))

set_on_board_mode ==
  /\ pc = "open"
  /\ \E m \in {OnBoardMode.Board, OnBoardMode.Software}, f \in FailPoints :
       Returned([NoCall EXCEPT !.op = "set_on_board_mode", !.value = m, !.failAt = f],
                SendOption(backend, on_board_mode_packet(model, m), f))

set_fx ==
  /\ pc = "open"
  /\ \E e \in NativeEffectSet,
        p \in {NativeEffectPart.All, NativeEffectPart.Keys, NativeEffectPart.Logo},
        per \in TestPeriods,
        s \in {NativeEffectStorage.None, NativeEffectStorage.User},
        f \in FailPoints :
       Returned([NoCall EXCEPT !.op = "set_fx", !.effect = e, !.part = p,
                               !.period = per, !.color = RED, !.storage = s,
                               !.failAt = f],
                SendEach(backend,
                         Flatten(native_effect_packets(model, e, p, per, RED, s)),
                         0, f))

\* Keyboard::close: the handle is taken
close ==
  /\ pc \in {"open", "ran"}
  /\ pc' = "closed"
  /\ call' = NoCall
  /\ calls' = <<>>
  /\ sent' = <<>>
  /\ batches' = <<>>
  /\ result' = "Ok"
  /\ UNCHANGED <<backend, model, profile, toml, session>>

\* Keyboard::open in a later run of the program
open ==
  /\ pc = "closed"
  /\ pc' = "open"
  /\ model' \in BoundModels
  /\ call' = NoCall
  /\ calls' = <<>>
  /\ sent' = <<>>
  /\ batches' = <<>>
  /\ result' = "Ok"
  /\ UNCHANGED <<backend, profile, toml, session>>

Next ==
  \/ commit
  \/ set_keys
  \/ set_group_keys
  \/ set_all_keys
  \/ set_region
  \/ set_mr_key
  \/ set_mn_key
  \/ set_gkeys_mode
  \/ set_startup_mode
  \/ set_on_board_mode
  \/ set_fx
  \/ close
  \/ open

Spec == Init /\ [][Next]_vars

(* ------------------------------------------------------------------ *)
(* profile.rs: parse_profile over a keyboard K: KeyboardApi           *)
(* ------------------------------------------------------------------ *)
\* the longest profile read
MaxLines == 3

\* the lines a profile is made of
ProfileLines ==
  { <<>>, <<"#", "c">>,
    <<"var", "c1", "red">>,
    <<"k", "a", "red">>, <<"k", "logo", "$c1">>, <<"k", "a">>,
    <<"c">>,
    <<"a", "red">>, <<"a">>,
    <<"g", "gkeys", "0000ff">>,
    <<"r", "1", "red">>,
    <<"mr", "1">>, <<"mn", "1">>, <<"gkm", "1">>,
    <<"sm", "wave">>, <<"obm", "board">>,
    <<"fx", "breathing", "keys", "red", "200ms">>,
    <<"bogus">> }

\* what a call on K can return: K is any implementation of KeyboardApi
FacadeResults == BOOLEAN

\* Option::and_then with the closure `|arg| f(arg)` on a word
AndThen(opt, f) == IF opt.some THEN f[opt.val] ELSE None

\* Option::unwrap_or
UnwrapOr(opt, default) == IF opt.some THEN opt.val ELSE default

\* `reader.read_line(&mut line)? != 0`: there is a next line
Reading == profile.pc = "reading" /\ Len(profile.input) < MaxLines

\* the number of the line being read, from 1
LineNo == Len(profile.input) + 1

\* the line read, with the match arm it was dispatched to
ReadLine(l, arm) == [words |-> l, arm |-> arm]

\* a call `kbd.op(args)` made while reading line `line`, and whether it
\* returned Ok
FacadeCall(op, args, line, ok) ==
  [op |-> op, args |-> args, line |-> line, ok |-> ok]

\* the line made no facade call: `line.clear()` and the next iteration
NoFacadeCall(l, arm) ==
  profile' = [profile EXCEPT !.input = Append(@, ReadLine(l, arm))]

\* the line made one facade call; `?` returns its error
OneFacadeCall(l, arm, op, args, ok) ==
  profile' = [profile EXCEPT
    !.input = Append(@, ReadLine(l, arm)),
    !.log = Append(@, FacadeCall(op, args, LineNo, ok)),
    !.pc = IF ok THEN "reading" ELSE "returned",
    !.result = IF ok THEN @ ELSE "Err",
    !.error = IF ok THEN @ ELSE "facade"]

\* `&args[1]` on a line of one word: the index is out of bounds
IndexPanics(l, arm) ==
  profile' = [profile EXCEPT
    !.input = Append(@, ReadLine(l, arm)),
    !.pc = "returned", !.result = "Panic", !.error = "index out of bounds"]

\* a line of one parsed argument: the arms a, mr, mn, gkm, sm, obm
OneArgArm(l, arm, op, parsed, ok) ==
  IF Len(Tokenize(l, profile.vars)) < 2 THEN IndexPanics(l, arm)
  ELSE IF parsed.some THEN OneFacadeCall(l, arm, op, parsed.val, ok)
  ELSE NoFacadeCall(l, arm)

\* parse_profile(kbd, reader, strict) is called
parse_profile ==
  /\ profile.pc = "idle"
  /\ \E strict \in BOOLEAN :
       profile' = [ProfileIdle EXCEPT !.pc = "reading", !.strict = strict,
                                      !.vars = [name \in {} |-> ""]]
  /\ UNCHANGED <<pc, backend, model, call, calls, sent, batches, result, toml,
                 session>>

\* an empty line or a comment
line_blank ==
  /\ Reading
  /\ \E l \in ProfileLines :
       /\ Arm(Tokenize(l, profile.vars)) = "blank"
       /\ NoFacadeCall(l, "blank")
  /\ UNCHANGED <<pc, backend, model, call, calls, sent, batches, result, toml,
                 session>>

\* var <name> <value>
line_var ==
  /\ Reading
  /\ \E l \in ProfileLines :
       /\ Arm(Tokenize(l, profile.vars)) = "var"
       /\ profile' = [profile EXCEPT
            !.input = Append(@, ReadLine(l, "var")),
            !.vars = [name \in DOMAIN @ \cup {Tokenize(l, profile.vars)[2]} |->
                        IF name = Tokenize(l, profile.vars)[2]
                        THEN Tokenize(l, profile.vars)[3] ELSE @[name]]]
  /\ UNCHANGED <<pc, backend, model, call, calls, sent, batches, result, toml,
                 session>>

\* commit sent ahead of the buffered keys
CommitCalls_commit_first(keys, line, keysOk, commitOk) ==
  <<FacadeCall("commit", <<>>, line, commitOk)>>
  \o (IF keys # <<>> /\ commitOk
      THEN <<FacadeCall("set_keys", keys, line, keysOk)>> ELSE <<>>)

\* the facade calls of a `c` line: set_keys on a non-empty buffer, then
\* commit unless set_keys failed
CommitCalls(keys, line, keysOk, commitOk) ==
  (IF keys # <<>> THEN <<FacadeCall("set_keys", keys, line, keysOk)>> ELSE <<>>)
  \o (IF keys = <<>> \/ keysOk
      THEN <<FacadeCall("commit", <<>>, line, commitOk)>> ELSE <<>>)

\* c
line_c ==
  /\ Reading
  /\ \E l \in ProfileLines, keysOk, commitOk \in FacadeResults :
       /\ Arm(Tokenize(l, profile.vars)) = "c"
       /\ profile.keys = <<>> => keysOk
       /\ ~keysOk => commitOk
       /\ profile' = [profile EXCEPT
            !.input = Append(@, ReadLine(l, "c")),
            !.log = @ \o CommitCalls(profile.keys, LineNo, keysOk, commitOk),
            !.keys = IF keysOk THEN <<>> ELSE @,
            !.pc = IF keysOk /\ commitOk THEN "reading" ELSE "returned",
            !.result = IF keysOk /\ commitOk THEN @ ELSE "Err",
            !.error = IF keysOk /\ commitOk THEN @ ELSE "facade"]
  /\ UNCHANGED <<pc, backend, model, call, calls, sent, batches, result, toml,
                 session>>

\* a <color>
line_a ==
  /\ Reading
  /\ \E l \in ProfileLines, ok \in FacadeResults :
       /\ Arm(Tokenize(l, profile.vars)) = "a"
       /\ ~AndThen(ArgGet(Tokenize(l, profile.vars), 1),
                   [w \in Words |-> parse_color(w)]).some => ok
       /\ OneArgArm(l, "a", "set_all_keys",
                    AndThen(ArgGet(Tokenize(l, profile.vars), 1),
                            [w \in Words |-> parse_color(w)]), ok)
  /\ UNCHANGED <<pc, backend, model, call, calls, sent, batches, result, toml,
                 session>>

\* the two parsed arguments of a `g`, `k` or `r` line, if both parse
BothParsed(first, second) ==
  IF first.some /\ second.some THEN Some(<<first.val, second.val>>) ELSE None

\* g <group> <color>
line_g ==
  /\ Reading
  /\ \E l \in ProfileLines, ok \in FacadeResults :
       /\ Arm(Tokenize(l, profile.vars)) = "g"
       /\ IF BothParsed(parse_key_group(Tokenize(l, profile.vars)[2]),
                        parse_color(Tokenize(l, profile.vars)[3])).some
          THEN OneFacadeCall(l, "g", "set_group_keys",
                 BothParsed(parse_key_group(Tokenize(l, profile.vars)[2]),
                            parse_color(Tokenize(l, profile.vars)[3])).val, ok)
          ELSE ok /\ NoFacadeCall(l, "g")
  /\ UNCHANGED <<pc, backend, model, call, calls, sent, batches, result, toml,
                 session>>

\* the entry sent at once instead of buffered
PushKey_sent_at_once(l, kv) ==
  profile' = [profile EXCEPT
    !.input = Append(@, ReadLine(l, "k")),
    !.log = Append(@, FacadeCall("set_keys", <<kv>>, LineNo, TRUE)),
    !.pushed = Append(@, [kv |-> kv, line |-> LineNo])]

\* keys.push(KeyValue { key, color }), remembered with the line's number
PushKey(l, kv) ==
  profile' = [profile EXCEPT
    !.input = Append(@, ReadLine(l, "k")),
    !.keys = Append(@, kv),
    !.pushed = Append(@, [kv |-> kv, line |-> LineNo])]

\* k <key> <color>
line_k ==
  /\ Reading
  /\ \E l \in ProfileLines :
       /\ Arm(Tokenize(l, profile.vars)) = "k"
       /\ IF BothParsed(parse_key(Tokenize(l, profile.vars)[2]),
                        parse_color(Tokenize(l, profile.vars)[3])).some
          THEN PushKey(l, KeyValue(parse_key(Tokenize(l, profile.vars)[2]).val,
                                   parse_color(Tokenize(l, profile.vars)[3]).val))
          ELSE NoFacadeCall(l, "k")
  /\ UNCHANGED <<pc, backend, model, call, calls, sent, batches, result, toml,
                 session>>

\* r <region> <color>
line_r ==
  /\ Reading
  /\ \E l \in ProfileLines, ok \in FacadeResults :
       /\ Arm(Tokenize(l, profile.vars)) = "r"
       /\ IF BothParsed(parse_u8(Tokenize(l, profile.vars)[2]),
                        parse_color(Tokenize(l, profile.vars)[3])).some
          THEN OneFacadeCall(l, "r", "set_region",
                 BothParsed(parse_u8(Tokenize(l, profile.vars)[2]),
                            parse_color(Tokenize(l, profile.vars)[3])).val, ok)
          ELSE ok /\ NoFacadeCall(l, "r")
  /\ UNCHANGED <<pc, backend, model, call, calls, sent, batches, result, toml,
                 session>>

\* mr <value>
line_mr ==
  /\ Reading
  /\ \E l \in ProfileLines, ok \in FacadeResults :
       /\ Arm(Tokenize(l, profile.vars)) = "mr"
       /\ ~AndThen(ArgGet(Tokenize(l, profile.vars), 1),
                   [w \in Words |-> parse_u8(w)]).some => ok
       /\ OneArgArm(l, "mr", "set_mr_key",
                    AndThen(ArgGet(Tokenize(l, profile.vars), 1),
                            [w \in Words |-> parse_u8(w)]), ok)
  /\ UNCHANGED <<pc, backend, model, call, calls, sent, batches, result, toml,
                 session>>

\* mn <value>
line_mn ==
  /\ Reading
  /\ \E l \in ProfileLines, ok \in FacadeResults :
       /\ Arm(Tokenize(l, profile.vars)) = "mn"
       /\ ~AndThen(ArgGet(Tokenize(l, profile.vars), 1),
                   [w \in Words |-> parse_u8(w)]).some => ok
       /\ OneArgArm(l, "mn", "set_mn_key",
                    AndThen(ArgGet(Tokenize(l, profile.vars), 1),
                            [w \in Words |-> parse_u8(w)]), ok)
  /\ UNCHANGED <<pc, backend, model, call, calls, sent, batches, result, toml,
                 session>>

\* gkm <value>
line_gkm ==
  /\ Reading
  /\ \E l \in ProfileLines, ok \in FacadeResults :
       /\ Arm(Tokenize(l, profile.vars)) = "gkm"
       /\ ~AndThen(ArgGet(Tokenize(l, profile.vars), 1),
                   [w \in Words |-> parse_u8(w)]).some => ok
       /\ OneArgArm(l, "gkm", "set_gkeys_mode",
                    AndThen(ArgGet(Tokenize(l, profile.vars), 1),
                            [w \in Words |-> parse_u8(w)]), ok)
  /\ UNCHANGED <<pc, backend, model, call, calls, sent, batches, result, toml,
                 session>>

\* sm <mode>
line_sm ==
  /\ Reading
  /\ \E l \in ProfileLines, ok \in FacadeResults :
       /\ Arm(Tokenize(l, profile.vars)) = "sm"
       /\ ~AndThen(ArgGet(Tokenize(l, profile.vars), 1),
                   [w \in Words |-> parse_startup_mode(w)]).some => ok
       /\ OneArgArm(l, "sm", "set_startup_mode",
                    AndThen(ArgGet(Tokenize(l, profile.vars), 1),
                            [w \in Words |-> parse_startup_mode(w)]), ok)
  /\ UNCHANGED <<pc, backend, model, call, calls, sent, batches, result, toml,
                 session>>

\* obm <mode>
line_obm ==
  /\ Reading
  /\ \E l \in ProfileLines, ok \in FacadeResults :
       /\ Arm(Tokenize(l, profile.vars)) = "obm"
       /\ ~AndThen(ArgGet(Tokenize(l, profile.vars), 1),
                   [w \in Words |-> parse_board_mode(w)]).some => ok
       /\ OneArgArm(l, "obm", "set_on_board_mode",
                    AndThen(ArgGet(Tokenize(l, profile.vars), 1),
                            [w \in Words |-> parse_board_mode(w)]), ok)
  /\ UNCHANGED <<pc, backend, model, call, calls, sent, batches, result, toml,
                 session>>

\* the word of an fx line the color is read from: the fourth for Color and
\* Breathing, the fifth for the other effects
FxColorArg(effect) ==
  IF effect \in {NativeEffect.Color, NativeEffect.Breathing} THEN 3 ELSE 4

\* the period of an fx line: none for Color, the fifth word for Breathing,
\* the fourth for the other effects
FxPeriod(args, effect) ==
  IF effect = NativeEffect.Color THEN None
  ELSE AndThen(ArgGet(args, IF effect = NativeEffect.Breathing THEN 4 ELSE 3),
               [w \in Words |-> parse_period(w)])

\* the arguments of the set_fx call of an fx line
FxArgs(args, effect, part) ==
  [effect |-> effect, part |-> part,
   period |-> UnwrapOr(FxPeriod(args, effect), 0),
   color |-> UnwrapOr(AndThen(ArgGet(args, FxColorArg(effect)),
                              [w \in Words |-> parse_color(w)]),
                      Color(0, 0, 0)),
   storage |-> UnwrapOr(AndThen(ArgGet(args, 5),
                                [w \in Words |-> parse_native_effect_storage(w)]),
                        NativeEffectStorage.None)]

\* fx <effect> <part> [color|period] [...]
line_fx ==
  /\ Reading
  /\ \E l \in ProfileLines, ok \in FacadeResults :
       /\ Arm(Tokenize(l, profile.vars)) = "fx"
       /\ IF BothParsed(parse_native_effect(Tokenize(l, profile.vars)[2]),
                        parse_native_effect_part(Tokenize(l, profile.vars)[3])).some
          THEN OneFacadeCall(l, "fx", "set_fx",
                 FxArgs(Tokenize(l, profile.vars),
                        parse_native_effect(Tokenize(l, profile.vars)[2]).val,
                        parse_native_effect_part(Tokenize(l, profile.vars)[3]).val),
                 ok)
          ELSE ok /\ NoFacadeCall(l, "fx")
  /\ UNCHANGED <<pc, backend, model, call, calls, sent, batches, result, toml,
                 session>>

\* unknown commands never end the call
UnknownReturns_never(strict) == FALSE

\* what the default arm does with an unknown command under `strict`
UnknownReturns(strict) == strict

\* any other line: the default arm
line_unknown ==
  /\ Reading
  /\ \E l \in ProfileLines :
       /\ Arm(Tokenize(l, profile.vars)) = "unknown"
       /\ profile' = [profile EXCEPT
            !.input = Append(@, ReadLine(l, "unknown")),
            !.pc = IF UnknownReturns(profile.strict) THEN "returned" ELSE @,
            !.result = IF UnknownReturns(profile.strict) THEN "Err" ELSE @,
            !.error = IF UnknownReturns(profile.strict)
                      THEN "unknown command" ELSE @]
  /\ UNCHANGED <<pc, backend, model, call, calls, sent, batches, result, toml,
                 session>>

\* the call made after the last line: set_keys on a non-empty buffer; the
\* line number 0 stands for the end of the input
FinalFlush(keys, ok) ==
  IF keys # <<>> THEN <<FacadeCall("set_keys", keys, 0, ok)>> ELSE <<>>

\* read_line returns 0: the end of the input
end_of_input ==
  /\ profile.pc = "reading"
  /\ \E ok \in FacadeResults :
       /\ profile.keys = <<>> => ok
       /\ profile' = [profile EXCEPT
            !.log = @ \o FinalFlush(profile.keys, ok),
            !.pc = "returned",
            !.result = IF ok THEN "Ok" ELSE "Err",
            !.error = IF ok THEN @ ELSE "facade"]
  /\ UNCHANGED <<pc, backend, model, call, calls, sent, batches, result, toml,
                 session>>

\* load_profile on an open keyboard
ProfileInit ==
  /\ pc = "open"
  /\ backend = CHOOSE b \in Backends : TRUE
  /\ model = "G810"
  /\ call = NoCall
  /\ calls = <<>>
  /\ sent = <<>>
  /\ batches = <<>>
  /\ result = "Ok"
  /\ profile = ProfileIdle
  /\ toml = TomlIdle
  /\ session = SessionIdle

ProfileNext ==
  \/ parse_profile
  \/ line_blank
  \/ line_var
  \/ line_c
  \/ line_a
  \/ line_g
  \/ line_k
  \/ line_r
  \/ line_mr
  \/ line_mn
  \/ line_gkm
  \/ line_sm
  \/ line_obm
  \/ line_fx
  \/ line_unknown
  \/ end_of_input

ProfileSpec == ProfileInit /\ [][ProfileNext]_vars

(* ------------------------------------------------------------------ *)
(* profile.rs: load_toml_profile over a keyboard K: KeyboardApi       *)
(* ------------------------------------------------------------------ *)
\* the longest `groups` and `key` tables of a Profile
MaxEntries == 2

\* the entries of the tables of a Profile
TomlGroupEntries ==
  {[group |-> "logo", color |-> "red"], [group |-> "bogus", color |-> "red"]}

TomlKeyEntries ==
  {[key |-> "a", color |-> "red"], [key |-> "logo", color |-> "bogus"]}

\* the scalar settings of a Profile: none, all five, or two mode names of
\* which the first does not parse
TomlModes ==
  {[mr |-> None, mn |-> None, gkeys_mode |-> None, startup_mode |-> None,
    on_board_mode |-> None],
   [mr |-> Some(1), mn |-> Some(2), gkeys_mode |-> Some(3),
    startup_mode |-> Some("wave"), on_board_mode |-> Some("board")],
   [mr |-> None, mn |-> None, gkeys_mode |-> None,
    startup_mode |-> Some("bogus"), on_board_mode |-> Some("software")]}

\* the Profiles toml::from_str yields
TomlProfiles ==
  {[all |-> a, groups |-> g, key |-> k, regions |-> r, effects |-> e,
    mr |-> m.mr, mn |-> m.mn, gkeys_mode |-> m.gkeys_mode,
    startup_mode |-> m.startup_mode, on_board_mode |-> m.on_board_mode] :
     a \in {None, Some("red"), Some("bogus")},
     g \in UNION {[1..n -> TomlGroupEntries] : n \in 0..MaxEntries},
     k \in UNION {[1..n -> TomlKeyEntries] : n \in 0..MaxEntries},
     r \in {<<>>, <<[region |-> "1", color |-> "red"]>>},
     e \in {<<>>, <<[effect |-> "breathing", part |-> "keys",
                     period |-> Some("200ms"), color |-> Some("red"),
                     storage |-> None]>>},
     m \in TomlModes}

\* `if let Some(v) = opt { kbd.op(v)?; }`: the call made, if any
TomlOptionCall(op, opt) ==
  IF opt.some THEN <<[op |-> op, args |-> opt.val]>> ELSE <<>>

\* the set_group_keys calls of the `groups` table: one per entry whose
\* group and color parse
RECURSIVE TomlGroupCalls(_)
TomlGroupCalls(entries) ==
  IF entries = <<>> THEN <<>>
  ELSE TomlOptionCall("set_group_keys",
                      BothParsed(parse_key_group(Head(entries).group),
                                 parse_color(Head(entries).color)))
       \o TomlGroupCalls(Tail(entries))

\* `keys`: one KeyValue per entry of the `key` table whose key and color
\* parse
RECURSIVE TomlKeys(_)
TomlKeys(entries) ==
  IF entries = <<>> THEN <<>>
  ELSE (IF BothParsed(parse_key(Head(entries).key),
                      parse_color(Head(entries).color)).some
        THEN <<KeyValue(parse_key(Head(entries).key).val,
                        parse_color(Head(entries).color).val)>>
        ELSE <<>>)
       \o TomlKeys(Tail(entries))

\* the set_region calls of the `regions` table
RECURSIVE TomlRegionCalls(_)
TomlRegionCalls(entries) ==
  IF entries = <<>> THEN <<>>
  ELSE TomlOptionCall("set_region",
                      BothParsed(parse_u8(Head(entries).region),
                                 parse_color(Head(entries).color)))
       \o TomlRegionCalls(Tail(entries))

\* the set_fx calls of the `effects` table: one per entry whose effect and
\* part parse, with the defaults for what is absent or does not parse
RECURSIVE TomlEffectCalls(_)
TomlEffectCalls(entries) ==
  IF entries = <<>> THEN <<>>
  ELSE TomlOptionCall("set_fx",
         IF BothParsed(parse_native_effect(Head(entries).effect),
                       parse_native_effect_part(Head(entries).part)).some
         THEN Some(
           [effect |-> parse_native_effect(Head(entries).effect).val,
            part |-> parse_native_effect_part(Head(entries).part).val,
            period |->
              UnwrapOr(AndThen(Head(entries).period,
                               [w \in Words |-> parse_period(w)]), 0),
            color |->
              UnwrapOr(AndThen(Head(entries).color,
                               [w \in Words |-> parse_color(w)]),
                       Color(0, 0, 0)),
            storage |->
              UnwrapOr(AndThen(Head(entries).storage,
                               [w \in Words |-> parse_native_effect_storage(w)]),
                       NativeEffectStorage.None)])
         ELSE None)
       \o TomlEffectCalls(Tail(entries))

\* the calls apply_toml_profile makes when none of them fails, in order
TomlPlan(p) ==
  TomlOptionCall("set_all_keys", AndThen(p.all, [w \in Words |-> parse_color(w)]))
  \o TomlGroupCalls(p.groups)
  \o TomlOptionCall("set_keys",
                    IF TomlKeys(p.key) # <<>> THEN Some(TomlKeys(p.key))
                    ELSE None)
  \o TomlRegionCalls(p.regions)
  \o TomlEffectCalls(p.effects)
  \o TomlOptionCall("set_mr_key", p.mr)
  \o TomlOptionCall("set_mn_key", p.mn)
  \o TomlOptionCall("set_gkeys_mode", p.gkeys_mode)
  \o TomlOptionCall("set_startup_mode",
                    AndThen(p.startup_mode, [w \in Words |-> parse_startup_mode(w)]))
  \o TomlOptionCall("set_on_board_mode",
                    AndThen(p.on_board_mode, [w \in Words |-> parse_board_mode(w)]))
  \o TomlOptionCall("commit", Some(<<>>))

\* the calls go on after the one that failed
TomlCallsMade_keep_going(plan, failAt) ==
  [i \in 1..Len(plan) |->
     [op |-> plan[i].op, args |-> plan[i].args, ok |-> i # failAt]]

\* `?`: the calls made when call number failAt returns an error (0: none
\* does), each with what it returned
TomlCallsMade(plan, failAt) ==
  [i \in 1..(IF failAt = 0 THEN Len(plan) ELSE failAt) |->
     [op |-> plan[i].op, args |-> plan[i].args, ok |-> i # failAt]]

\* apply_toml_profile(kbd, profile): the call as it has returned
apply_toml_profile(p, failAt) ==
  [pc |-> "returned", profile |-> p,
   log |-> TomlCallsMade(TomlPlan(p), failAt),
   result |-> IF failAt = 0 THEN "Ok" ELSE "Err"]

\* load_toml_profile(kbd, path): the file is read and deserialized, either
\* of which may fail, and the Profile is applied
load_toml_profile ==
  /\ toml.pc = "idle"
  /\ \/ toml' = [TomlIdle EXCEPT !.pc = "returned", !.result = "Err"]
     \/ \E p \in TomlProfiles :
          \E failAt \in 0..Len(TomlPlan(p)) :
            toml' = apply_toml_profile(p, failAt)
  /\ UNCHANGED <<pc, backend, model, call, calls, sent, batches, result,
                 profile, session>>

TomlNext == load_toml_profile

TomlSpec == ProfileInit /\ [][TomlNext]_vars

(* ------------------------------------------------------------------ *)
(* main.rs with_keyboard; device/hid.rs and device/libusb.rs          *)
(* Keyboard::open, close and Drop; model.rs lookup_model              *)
(* ------------------------------------------------------------------ *)
\* the most calls of Keyboard::close on one Keyboard
MaxCloses == 2

LOGITECH_VENDOR_ID == 1133   \* 0x046d

\* (vendor, product, model)
SUPPORTED_KEYBOARDS ==
  <<<<1133, 49974, "G213">>, <<1133, 49968, "G410">>, <<1133, 49978, "G413">>,
    <<1133, 49986, "G512">>, <<1133, 49980, "G513">>, <<1133, 49971, "G610">>,
    <<1133, 49976, "G610">>, <<1133, 49969, "G810">>, <<1133, 49975, "G810">>,
    <<1133, 49983, "G815">>, <<1133, 49963, "G910">>, <<1133, 49973, "G910">>,
    <<1133, 49977, "GPro">>>>

\* list.iter().find_map(..).unwrap_or(KeyboardModel::Unknown)
FindModel(list, vid, pid) ==
  IF \E i \in 1..Len(list) : list[i][1] = vid /\ list[i][2] = pid
  THEN list[CHOOSE i \in 1..Len(list) :
              /\ list[i][1] = vid /\ list[i][2] = pid
              /\ \A j \in 1..(i - 1) : ~(list[j][1] = vid /\ list[j][2] = pid)][3]
  ELSE "Unknown"

\* an override that hides nothing
lookup_model_both_lists(override, vid, pid) ==
  IF override.some /\ FindModel(override.val, vid, pid) # "Unknown"
  THEN FindModel(override.val, vid, pid)
  ELSE FindModel(SUPPORTED_KEYBOARDS, vid, pid)

\* lookup_model(vid, pid) when SUPPORTED_OVERRIDE holds `override`
lookup_model(override, vid, pid) ==
  IF override.some THEN FindModel(override.val, vid, pid)
  ELSE FindModel(SUPPORTED_KEYBOARDS, vid, pid)

\* the devices on the bus: none, or one of a G810, a G815 and a device that
\* is not a supported keyboard
SessionDevices ==
  {None} \cup
  {Some([vid |-> 1133, pid |-> p, serial |-> "sn1"]) : p \in {49969, 49983, 1}}

\* what the calls Keyboard::open makes come back with: the devices listed,
\* whether the device can be opened, kernel_driver_active(1) ("active",
\* "inactive" or "error"), and whether claim_interface(1) succeeds
SessionEnvs ==
  [device : SessionDevices, open_ok : BOOLEAN,
   driver : {"active", "inactive", "error"}, claim_ok : BOOLEAN]

\* the arguments of with_keyboard; f is given by what it returns
SessionArgs ==
  [vendor_id : {None, Some(0)}, product_id : {None, Some(49969)},
   protocol : {None} \cup {Some(n) : n \in 0..5},
   serial : {None, Some("sn1"), Some("sn2")}, f : {"Ok", "Err"}]

\* the model a protocol number stands for
ProtocolModel(protocol) ==
  IF ~protocol.some THEN None
  ELSE CASE protocol.val = 1 -> Some("G810")
         [] protocol.val = 2 -> Some("G910")
         [] protocol.val = 3 -> Some("G213")
         [] protocol.val = 4 -> Some("G815")
         [] OTHER -> None

\* the device Keyboard::open selects exists: it resolves to a model, passes
\* the vendor, product and serial filters, and opens
Selected(override, env, vendor_id, product_id, serial) ==
  /\ env.device.some
  /\ lookup_model(override, env.device.val.vid, env.device.val.pid) # "Unknown"
  /\ vendor_id = 0 \/ env.device.val.vid = vendor_id
  /\ product_id = 0 \/ env.device.val.pid = product_id
  /\ serial.some => env.device.val.serial = serial.val
  /\ env.open_ok

\* the driver is left alone
Detach_never(env) == <<>>

\* libusb Keyboard::open: `if driver_active { detach_kernel_driver(1) }`
Detach(env) ==
  IF env.driver = "active" THEN <<"detach_kernel_driver">> ELSE <<>>

\* Keyboard::open(vendor_id, product_id, serial) of the session's backend
Opened(s, env, vendor_id, product_id, serial) ==
  IF ~Selected(s.override, env, vendor_id, product_id, serial)
  THEN [s EXCEPT !.env = env, !.result = "Err"]
  ELSE IF s.backend = "hid"
  THEN [s EXCEPT !.env = env, !.kbd = "open", !.handle = TRUE]
  ELSE IF ~env.claim_ok
  THEN [s EXCEPT !.env = env, !.result = "Err",
                 !.usb = Detach(env) \o <<"claim_interface">>]
  ELSE [s EXCEPT !.env = env, !.kbd = "open", !.handle = TRUE,
                 !.kernel_detached = (env.driver = "active"),
                 !.usb = Detach(env) \o <<"claim_interface">>]

\* the driver is bound again whether or not it was detached
Attach_always(s) == <<"attach_kernel_driver">>

\* libusb Keyboard::close: `if self.kernel_detached { attach_kernel_driver(1) }`
Attach(s) ==
  IF s.kernel_detached THEN <<"attach_kernel_driver">> ELSE <<>>

\* Keyboard::close of the session's backend
Closed(s) ==
  IF ~s.handle THEN s
  ELSE IF s.backend = "hid" THEN [s EXCEPT !.handle = FALSE]
  ELSE [s EXCEPT !.handle = FALSE,
                 !.usb = s.usb \o <<"release_interface">> \o Attach(s)]

\* Drop for Keyboard
Dropped(s) == [Closed(s) EXCEPT !.kbd = "dropped", !.override = None]

\* with_keyboard(vendor_id, product_id, protocol, serial, f): the override
\* is set if the protocol names a model; Keyboard::open, whose error is
\* returned by `?`; then f, close, clear_supported_override and the end of
\* kbd's scope
with_keyboard ==
  /\ session.pc = "idle"
  /\ \E b \in Backends, a \in SessionArgs, env \in SessionEnvs :
       LET kbd ==
             Opened([session EXCEPT
                       !.backend = b, !.args = a,
                       !.override =
                         IF ProtocolModel(a.protocol).some
                         THEN Some(<<<<UnwrapOr(a.vendor_id, LOGITECH_VENDOR_ID),
                                       UnwrapOr(a.product_id, 0),
                                       ProtocolModel(a.protocol).val>>>>)
                         ELSE None],
                    env, UnwrapOr(a.vendor_id, LOGITECH_VENDOR_ID),
                    UnwrapOr(a.product_id, 0), a.serial)
       IN session' =
            IF kbd.kbd # "open" THEN [kbd EXCEPT !.pc = "returned"]
            ELSE [Dropped([Closed(kbd) EXCEPT !.override = None])
                    EXCEPT !.pc = "returned", !.result = a.f]
  /\ UNCHANGED <<pc, backend, model, call, calls, sent, batches, result,
                 profile, toml>>

\* Keyboard::open called on its own
Keyboard_open ==
  /\ session.pc = "idle"
  /\ \E b \in Backends, vid \in {0, LOGITECH_VENDOR_ID}, pid \in {0, 49969},
        env \in SessionEnvs :
       session' =
         [Opened([session EXCEPT !.backend = b], env, vid, pid, None)
            EXCEPT !.pc = "object"]
  /\ UNCHANGED <<pc, backend, model, call, calls, sent, batches, result,
                 profile, toml>>

\* kbd.close()
Keyboard_close ==
  /\ session.pc = "object"
  /\ session.kbd = "open"
  /\ session.closes < MaxCloses
  /\ session' = [Closed(session) EXCEPT !.closes = session.closes + 1]
  /\ UNCHANGED <<pc, backend, model, call, calls, sent, batches, result,
                 profile, toml>>

\* the Keyboard goes out of scope
Keyboard_drop ==
  /\ session.pc = "object"
  /\ session.kbd = "open"
  /\ session' = Dropped(session)
  /\ UNCHANGED <<pc, backend, model, call, calls, sent, batches, result,
                 profile, toml>>

SessionNext ==
  \/ with_keyboard
  \/ Keyboard_open
  \/ Keyboard_close
  \/ Keyboard_drop

SessionSpec == ProfileInit /\ [][SessionNext]_vars

(* ------------------------------------------------------------------ *)
(* Properties                                                         *)
(* ------------------------------------------------------------------ *)
CeilDiv(n, d) == (n + d - 1) \div d

\* the last facade call was `op`, and every device write it made succeeded
Completed(op) == pc = "ran" /\ call.op = op /\ result = "Ok"

\* every entry of the batch lies in address group g
SingleGroup(keys, g) ==
  keys # <<>> /\ \A i \in 1..Len(keys) : KeyGroupOf(keys[i].key) = g

GenericModels == {"G410", "G512", "G513", "G610", "G810", "G910", "GPro"}

\* report size and capacity as the claim states them
C1_Size(g) == IF g = 0 THEN 20 ELSE 64

C1_MaxKeys(g) == (C1_Size(g) - 8) \div 4

\* the key slots of the last report beyond the `used` ones are zero
C1_TailZero(packet, used) ==
  \A j \in (8 + 4 * used + 1)..Len(packet) : packet[j] = 0

C1_Chunked(g) ==
  LET n == Len(call.keys)
      count == CeilDiv(n, C1_MaxKeys(g))
  IN /\ Len(sent) = count
     /\ C1_TailZero(sent[count], n - (count - 1) * C1_MaxKeys(g))

\* C1 as stated: on every generic model a single-group batch of N keys is
\* sent as ceil(N / max_keys) reports, whatever the address group
C1_AsClaimed ==
  \A g \in AddressGroups :
    (Completed("set_keys") /\ model \in GenericModels /\ SingleGroup(call.keys, g))
      => C1_Chunked(g)

\* the address groups for which each generic model has a report header
C1_HeaderGroups(m) ==
  IF m \in {"G610", "G810"} THEN {0, 1, 2, 4}
  ELSE IF m = "G910" THEN {0, 1, 3, 4}
  ELSE {0, 1, 4}

\* C1 (amended): on a generic model a single-group batch of N >= 1 keys is
\* sent as exactly ceil(N / max_keys) reports (3 keys per 20-byte report for
\* group 0, 14 per 64-byte report otherwise) with the unused slots of the last
\* report zero, provided the model has a header for the group; for a group
\* without a header nothing is sent
C1_ChunkCount ==
  \A g \in AddressGroups :
    (Completed("set_keys") /\ model \in GenericModels /\ SingleGroup(call.keys, g))
      => IF g \in C1_HeaderGroups(model) THEN C1_Chunked(g) ELSE sent = <<>>

C1_Witness ==
  /\ Completed("set_keys")
  /\ model = "G410"
  /\ SingleGroup(call.keys, 4)
  /\ Len(call.keys) = 15
  /\ Len(sent) = 2
  /\ Len(sent[2]) = 64

\* the partition a sent key report belongs to: its colour on the G815,
\* on the other models the address group whose header it starts with
C2_Tag(m, packet) ==
  IF m = "G815" THEN <<packet[5], packet[6], packet[7]>>
  ELSE CHOOSE g \in AddressGroups :
         /\ group_address(m, g).some
         /\ SubSeq(packet, 1, 8) = group_address(m, g).val

\* the partition of a batch entry
C2_EntryTag(m, kv) ==
  IF m = "G815" THEN ColorTuple(kv.color) ELSE KeyGroupOf(kv.key)

\* position of the first batch entry of partition t
C2_FirstIndex(m, keys, t) ==
  CHOOSE i \in 1..Len(keys) :
    /\ C2_EntryTag(m, keys[i]) = t
    /\ \A j \in 1..(i - 1) : C2_EntryTag(m, keys[j]) # t

C2_Before(m, a, b) == IF m = "G815" THEN TupleLess(a, b) ELSE a < b

\* C2 as stated: the partitions of a batch are sent in the order of their
\* first occurrence in the batch
C2_AsClaimed ==
  Completed("set_keys") =>
    \A a, b \in 1..Len(sent) :
      LET ta == C2_Tag(model, sent[a])
          tb == C2_Tag(model, sent[b])
      IN (a < b /\ ta # tb)
           => C2_FirstIndex(model, call.keys, ta) < C2_FirstIndex(model, call.keys, tb)

\* C2 (amended): the partitions of a batch are sent in ascending order of
\* the partition key (address group number, or (R, G, B) compared
\* lexicographically on the G815), whatever their order in the batch: every
\* report of a smaller partition is sent before every report of a larger one
C2_SortedPartitions ==
  Completed("set_keys") =>
    \A a, b \in 1..Len(sent) :
      LET ta == C2_Tag(model, sent[a])
          tb == C2_Tag(model, sent[b])
      IN (a < b /\ ta # tb) => C2_Before(model, ta, tb)

\* a batch whose first entry belongs to the larger partition, each partition
\* sent, the larger one in two reports
C2_Witness ==
  /\ Completed("set_keys")
  /\ model = "G910"
  /\ Len(call.keys) = 16
  /\ KeyGroupOf(call.keys[1].key) = 4
  /\ KeyGroupOf(call.keys[2].key) = 3
  /\ Len(sent) = 3
  /\ C2_Tag(model, sent[1]) = 3
  /\ C2_Tag(model, sent[3]) = 4

C2_WitnessG815 ==
  /\ Completed("set_keys")
  /\ model = "G815"
  /\ Len(sent) = 2
  /\ ColorTuple(call.keys[1].color) = <<255, 0, 0>>
  /\ C2_Tag(model, sent[1]) = <<0, 0, 255>>

\* the period bytes of a native-effect descriptor as the claim states them:
\* big-endian milliseconds, 0xFFFF beyond the u16 range
C3_Saturated(period) == IF period > 65535 THEN 65535 ELSE period

\* the descriptor native_effect_packet builds for the arguments of the last
\* set_fx call, when it builds one
C3_Descriptor ==
  native_effect_packet(model, call.effect, call.part, call.period, call.color,
                       call.storage)

\* C3 as stated: in the 20-byte descriptor of native_effect_packet, bytes
\* 9..12 hold the period in milliseconds as high, low, high, low and byte 15
\* its high byte, where a period above 65535 ms is encoded as 0xFFFF
C3_PeriodSaturates ==
  (pc = "ran" /\ call.op = "set_fx" /\ C3_Descriptor.some) =>
    LET d == C3_Descriptor.val
        p == C3_Saturated(call.period)
    IN /\ Len(d) = 20
       /\ d[10] = p \div 256 /\ d[11] = p % 256
       /\ d[12] = p \div 256 /\ d[13] = p % 256
       /\ d[16] = p \div 256

\* a period one past the u16 range, encoded as zero
C3_Witness ==
  /\ pc = "ran" /\ call.op = "set_fx"
  /\ call.period = 65536
  /\ C3_Descriptor.some
  /\ C3_Descriptor.val[10] = 0 /\ C3_Descriptor.val[11] = 0
  /\ C3_Descriptor.val[16] = 0

\* C4: for every model, native_effect_packets with part = All returns the
\* packets of the Keys call followed by the packets of the Logo call for the
\* same arguments (None contributing nothing), no nested call is made with
\* part = All, and set_fx hands exactly these packets to the transport
C4_AllIsKeysThenLogo ==
  (pc = "ran" /\ call.op = "set_fx" /\ call.part = NativeEffectPart.All) =>
    /\ \A m \in KeyboardModel :
         /\ native_effect_packets(m, call.effect, NativeEffectPart.All, call.period,
                                  call.color, call.storage)
              = Some(Flatten(native_effect_packets(m, call.effect,
                               NativeEffectPart.Keys, call.period, call.color,
                               call.storage))
                     \o Flatten(native_effect_packets(m, call.effect,
                                  NativeEffectPart.Logo, call.period, call.color,
                                  call.storage)))
         /\ \A i \in DOMAIN NativeEffectSubcallParts(m, call.effect, call.part) :
              NativeEffectSubcallParts(m, call.effect, call.part)[i]
                # NativeEffectPart.All
    /\ call.failAt = 0 =>
         sent = Flatten(native_effect_packets(model, call.effect,
                          NativeEffectPart.Keys, call.period, call.color, call.storage))
                \o Flatten(native_effect_packets(model, call.effect,
                             NativeEffectPart.Logo, call.period, call.color,
                             call.storage))

\* an All request that sent a Keys descriptor and then a different Logo one
C4_Witness ==
  /\ Completed("set_fx")
  /\ call.part = NativeEffectPart.All
  /\ model = "G410"
  /\ Len(sent) = 2
  /\ sent[1][5] = NativeEffectPart.Keys
  /\ sent[2][5] = NativeEffectPart.Logo

\* the buffers a multi-packet operation hands to the transport when no send
\* fails, in order
C5_Plan ==
  CASE call.op = "set_keys" -> SetKeysPackets(model, call.keys)
    [] call.op = "set_group_keys" ->
         SetKeysPackets(model, GroupBatch(call.group, call.color))
    [] call.op = "set_all_keys" ->
         set_all_keys_run(backend, model, call.color, 0).calls
    [] call.op = "set_fx" ->
         Flatten(native_effect_packets(model, call.effect, call.part, call.period,
                                       call.color, call.storage))

MultiPacketOps == {"set_keys", "set_group_keys", "set_all_keys", "set_fx"}

\* C5: when the transport fails on the k-th packet of a multi-packet
\* operation, the operation returns the error, packets 1..k-1 were accepted
\* in order, and the k-th is the last buffer handed to the transport
C5_StopsAtFirstFailure ==
  (pc = "ran" /\ call.op \in MultiPacketOps /\ call.failAt > 0) =>
    /\ result = "Err"
    /\ call.failAt <= Len(C5_Plan)
    /\ sent = SubSeq(C5_Plan, 1, call.failAt - 1)
    /\ calls = SubSeq(C5_Plan, 1, call.failAt)

\* the second of at least three packets failed
C5_Witness ==
  /\ pc = "ran" /\ call.op = "set_all_keys"
  /\ call.failAt = 2
  /\ Len(C5_Plan) >= 3
  /\ result = "Err"
  /\ Len(sent) = 1
  /\ Len(calls) = 2

\* a model supports an operation when its ModelSpec has the header the
\* operation needs
C6_Unsupported(op, m) ==
  CASE op = "commit" -> ~spec(m).commit.some
    [] op = "set_keys" ->
         spec(m).group_addresses = <<>> /\ ~spec(m).keys_header.some
    [] op = "set_region" -> ~spec(m).region_header.some
    [] op = "set_mr_key" -> ~spec(m).mr_header.some
    [] op = "set_mn_key" -> ~spec(m).mn_header.some
    [] op = "set_gkeys_mode" -> ~spec(m).gkeys_header.some
    [] op = "set_startup_mode" -> ~spec(m).startup_header.some
    [] op = "set_on_board_mode" -> ~spec(m).onboard_header.some
    [] op = "set_fx" -> ~spec(m).effect_params.some
    [] OTHER -> FALSE

\* what the last call would have done on a handle bound to m
C6_RunOn(b, m) ==
  CASE call.op = "commit" -> SendOption(b, commit_packet(m), 0)
    [] call.op = "set_keys" -> set_keys_run(b, m, call.keys, 0, 0)
    [] call.op = "set_region" ->
         SendOption(b, region_packet(m, call.value, call.color), 0)
    [] call.op = "set_mr_key" -> SendOption(b, mr_packet(m, call.value), 0)
    [] call.op = "set_mn_key" -> SendOption(b, mn_packet(m, call.value), 0)
    [] call.op = "set_gkeys_mode" ->
         SendOption(b, gkeys_mode_packet(m, call.value), 0)
    [] call.op = "set_startup_mode" ->
         SendOption(b, startup_mode_packet(m, call.value), 0)
    [] call.op = "set_on_board_mode" ->
         SendOption(b, on_board_mode_packet(m, call.value), 0)
    [] call.op = "set_fx" ->
         SendEach(b, Flatten(native_effect_packets(m, call.effect, call.part,
                                 call.period, call.color, call.storage)), 0, 0)
    [] OTHER -> EmptyRun

\* C6: a facade operation on a bound model that does not support it returns
\* Ok and makes no transport call (commit on G213 and G413 in particular),
\* and for the same arguments no model without the needed header, Unknown
\* included, produces a packet to send
C6_UnsupportedIsNoOp ==
  pc = "ran" =>
    /\ C6_Unsupported(call.op, model) => (result = "Ok" /\ calls = <<>>)
    /\ \A m \in KeyboardModel :
         C6_Unsupported(call.op, m) =>
           /\ C6_RunOn(backend, m).result = "Ok"
           /\ C6_RunOn(backend, m).calls = <<>>
    /\ C6_Unsupported("commit", "G213")
    /\ C6_Unsupported("commit", "G413")
    /\ C6_Unsupported("commit", "Unknown")

C6_Witness ==
  /\ pc = "ran"
  /\ call.op = "commit"
  /\ model = "G213"
  /\ result = "Ok"
  /\ calls = <<>>

\* C7: every buffer a facade operation hands to send_packet is exactly 20 or
\* exactly 64 bytes long
C7_ReportLength ==
  \A i \in 1..Len(calls) : Len(calls[i]) \in {20, 64}

\* one call that handed over a 20-byte and a 64-byte report
C7_Witness ==
  /\ pc = "ran"
  /\ call.op = "set_all_keys"
  /\ \E i \in 1..Len(calls) : Len(calls[i]) = 20
  /\ \E i \in 1..Len(calls) : Len(calls[i]) = 64

\* the colours of a batch
C8_Colors(keys) == {keys[i].color : i \in 1..Len(keys)}

\* number of key identifier bytes of a G815 key report: the bytes after the
\* 7-byte header up to the 0xff sentinel, or to the end of the report
C8_IdCount(packet) ==
  CHOOSE n \in 0..(Len(packet) - 7) :
    /\ \A j \in 1..n : packet[7 + j] # 255
    /\ n = Len(packet) - 7 \/ packet[8 + n] = 255

\* C8: on the G815 a batch with at least two distinct colours is sent as at
\* least two reports; each report carries one colour in bytes 4..6 and at most
\* 13 identifier bytes, each the identifier of a batch key of that colour
C8_ColorHomogeneous ==
  (Completed("set_keys") /\ model = "G815" /\ Cardinality(C8_Colors(call.keys)) >= 2) =>
    /\ Len(sent) >= 2
    /\ \A i \in 1..Len(sent) :
         /\ Len(sent[i]) = 20
         /\ C8_IdCount(sent[i]) <= 13
         /\ \A j \in 1..C8_IdCount(sent[i]) :
              \E n \in 1..Len(call.keys) :
                /\ ColorTuple(call.keys[n].color)
                     = <<sent[i][5], sent[i][6], sent[i][7]>>
                /\ g815_key_id(call.keys[n].key) = Some(sent[i][7 + j])

\* a red key followed by 15 blue keys: a full blue report, a second blue
\* report and a red one
C8_Witness ==
  /\ Completed("set_keys")
  /\ model = "G815"
  /\ Len(call.keys) = 16
  /\ Cardinality(C8_Colors(call.keys)) = 2
  /\ Len(sent) = 3
  /\ C8_IdCount(sent[1]) = 13

NoKeyModels == {"G213", "G413"}

\* the batch the last key-setting call handed to set_keys
C9_Batch ==
  CASE call.op = "set_keys" -> call.keys
    [] call.op = "set_group_keys" -> GroupBatch(call.group, call.color)
    [] OTHER -> <<>>

\* C9: on G213 and G413, set_keys, set_group_keys and set_all_keys return Ok
\* without a transport call, and no packet is built from the batch or from
\* any single entry of it
C9_NoKeySupport ==
  (pc = "ran" /\ call.op \in KeySettingOps /\ model \in NoKeyModels) =>
    /\ result = "Ok"
    /\ calls = <<>>
    /\ set_keys_packet(model, C9_Batch) = None
    /\ \A i \in 1..Len(C9_Batch) : set_keys_packet(model, <<C9_Batch[i]>>) = None
    /\ \A g \in DOMAIN KeyGroupIter :
         set_keys_packet(model, GroupBatch(KeyGroupIter[g], call.color)) = None

C9_Witness ==
  /\ pc = "ran"
  /\ call.op = "set_keys"
  /\ model = "G413"
  /\ Len(call.keys) = 16
  /\ result = "Ok"
  /\ calls = <<>>

WavesFamily ==
  {NativeEffect.Waves, NativeEffect.HWave, NativeEffect.VWave, NativeEffect.CWave}

\* C10: for every model other than the G815, a Waves-family effect on the
\* Logo part yields what the static Color effect with colour (0, 255, 255)
\* and period 0 yields for the same storage, and set_fx sends exactly that
C10_WavesLogoIsCyan ==
  (pc = "ran" /\ call.op = "set_fx" /\ call.part = NativeEffectPart.Logo
     /\ call.effect \in WavesFamily) =>
    /\ \A m \in KeyboardModel \ {"G815"} :
         native_effect_packets(m, call.effect, call.part, call.period, call.color,
                               call.storage)
           = native_effect_packets(m, NativeEffect.Color, NativeEffectPart.Logo, 0,
                                   Color(0, 255, 255), call.storage)
    /\ (model # "G815" /\ call.failAt = 0) =>
         sent = Flatten(native_effect_packets(model, NativeEffect.Color,
                          NativeEffectPart.Logo, 0, Color(0, 255, 255), call.storage))

\* a horizontal wave of 70 s in red on the logo of a G410, sent as static cyan
C10_Witness ==
  /\ Completed("set_fx")
  /\ model = "G410"
  /\ call.effect = NativeEffect.HWave
  /\ call.part = NativeEffectPart.Logo
  /\ call.period = 70000
  /\ Len(sent) = 1
  /\ sent[1][6] = NativeEffectGroup.Color
  /\ <<sent[1][7], sent[1][8], sent[1][9]>> = <<0, 255, 255>>
  /\ <<sent[1][10], sent[1][11]>> = <<0, 0>>

\* the batch entries whose scan code has high byte g, in batch order
C11_Entries(g) == SelectSeq(call.keys, LAMBDA kv : kv.key \div 256 = g)

\* the sent reports that start with the model's header for address group g
C11_Packets(g) ==
  SelectSeq(sent, LAMBDA p : SubSeq(p, 1, 8) = group_address(model, g).val)

\* entry n of group g sits in slot (n - 1) mod max_keys of the group's
\* report number (n - 1) div max_keys + 1, as low byte, red, green, blue
C11_Carried(g, n) ==
  LET i == (n - 1) \div MaxKeys(g) + 1
      j == (n - 1) % MaxKeys(g)
  IN /\ i <= Len(C11_Packets(g))
     /\ SubSeq(C11_Packets(g)[i], 9 + 4 * j, 12 + 4 * j)
          = <<C11_Entries(g)[n].key % 256, C11_Entries(g)[n].color.red,
              C11_Entries(g)[n].color.green, C11_Entries(g)[n].color.blue>>

\* C11: the address group of a key is the high byte of its scan code; on a
\* model that takes generic key reports every batch entry is carried by a
\* report whose header is the model's header for that group, with only the low
\* byte of the scan code as its HID code, and every report sent carries
\* entries of exactly one group
C11_GroupFromHighByte ==
  /\ \A k \in DOMAIN KeyIter :
       /\ KeyGroupOf(KeyIter[k]) = KeyIter[k] \div 256
       /\ KeyLow(KeyIter[k]) = KeyIter[k] % 256
  /\ (Completed("set_keys") /\ model \in GenericModels) =>
       /\ \A g \in AddressGroups :
            group_address(model, g).some =>
              /\ \A n \in 1..Len(C11_Entries(g)) : C11_Carried(g, n)
              /\ Len(C11_Packets(g)) = CeilDiv(Len(C11_Entries(g)), MaxKeys(g))
       /\ \A i \in 1..Len(sent) :
            \E g \in AddressGroups :
              /\ group_address(model, g).some
              /\ SubSeq(sent[i], 1, 8) = group_address(model, g).val

\* a batch of two address groups sent as one report per group
C11_Witness ==
  /\ Completed("set_keys")
  /\ model = "G810"
  /\ Len(call.keys) = 2
  /\ call.keys[1].key = Key.A
  /\ call.keys[2].key = Key.Next
  /\ Len(sent) = 2
  /\ sent[1][9] = Key.Next % 256
  /\ sent[2][9] = Key.A % 256

\* byte 5 of the descriptor the G815 gets for `effect` on the Logo part, with
\* the remaining arguments of the last call
C12_Subcode(effect) ==
  native_effect_packets("G815", effect, NativeEffectPart.Logo, call.period,
                        call.color, call.storage).val[2][6]

C12_Breathing == {NativeEffect.Breathing}

C12_WavesFamily ==
  {NativeEffect.Waves, NativeEffect.HWave, NativeEffect.VWave, NativeEffect.CWave}

C12_Cycle == {NativeEffect.Cycle}

C12_RippleOff == {NativeEffect.Ripple, NativeEffect.Off}

\* effects of two classes never share a subcode
C12_Apart(A, B) == \A a \in A, b \in B : C12_Subcode(a) # C12_Subcode(b)

\* the descriptor sent for the last call carries the subcode of its effect
C12_SentSubcode ==
  (Completed("set_fx") /\ model = "G815" /\ call.part = NativeEffectPart.Logo) =>
    /\ Len(sent) = 2
    /\ sent[2][6] = C12_Subcode(call.effect)

\* C12 as stated: on the G815 Logo part the subcode in byte 5 is pairwise
\* distinct across Breathing, the Waves family, Cycle and Ripple/Off
C12_AsClaimed ==
  (pc = "ran" /\ call.op = "set_fx") =>
    /\ C12_SentSubcode
    /\ C12_Apart(C12_Breathing, C12_WavesFamily)
    /\ C12_Apart(C12_Breathing, C12_Cycle)
    /\ C12_Apart(C12_Breathing, C12_RippleOff)
    /\ C12_Apart(C12_WavesFamily, C12_Cycle)
    /\ C12_Apart(C12_WavesFamily, C12_RippleOff)
    /\ C12_Apart(C12_Cycle, C12_RippleOff)

\* C12 (amended): on the G815 Logo part byte 5 is 0x03 for Breathing, 0x02
\* for the Waves family and for Cycle alike, 0x00 for Ripple and Off; the
\* three classes Breathing, Waves-family-or-Cycle and Ripple/Off are pairwise
\* distinct
C12_ThreeSubcodes ==
  (pc = "ran" /\ call.op = "set_fx") =>
    /\ C12_SentSubcode
    /\ \A e \in C12_Breathing : C12_Subcode(e) = 3
    /\ \A e \in C12_WavesFamily \cup C12_Cycle : C12_Subcode(e) = 2
    /\ \A e \in C12_RippleOff : C12_Subcode(e) = 0
    /\ C12_Apart(C12_Breathing, C12_WavesFamily \cup C12_Cycle)
    /\ C12_Apart(C12_Breathing, C12_RippleOff)
    /\ C12_Apart(C12_WavesFamily \cup C12_Cycle, C12_RippleOff)

\* a Cycle effect on the G815 logo, sent with the subcode of the waves
C12_Witness ==
  /\ Completed("set_fx")
  /\ model = "G815"
  /\ call.part = NativeEffectPart.Logo
  /\ call.effect = NativeEffect.Cycle
  /\ Len(sent) = 2
  /\ sent[2][6] = 2
  /\ sent[2][6] = C12_Subcode(NativeEffect.Waves)

\* the 16-bit period the G815 ripple patch writes: milliseconds, 0xFFFF beyond
C13_Period == IF call.period > 65535 THEN 65535 ELSE call.period

C13_KeysRipple ==
  /\ Completed("set_fx")
  /\ model = "G815"
  /\ call.part = NativeEffectPart.Keys
  /\ call.effect = NativeEffect.Ripple

\* C13 as stated: the G815 Keys ripple overwrite is little-endian, the low
\* byte of the period at a lower offset than its high byte
C13_AsClaimed ==
  C13_KeysRipple =>
    /\ Len(sent) = 2
    /\ \E lo \in 9..12, hi \in 9..12 :
         /\ lo < hi
         /\ sent[2][lo + 1] = C13_Period % 256
         /\ sent[2][hi + 1] = C13_Period \div 256
         /\ \A o \in (9..12) \ {lo, hi} : sent[2][o + 1] = 0

\* C13 (amended): the G815 Keys ripple overwrite is big-endian: bytes 9..12
\* of the descriptor are 0x00, the high byte of the 16-bit millisecond period
\* (saturated to 0xFFFF), its low byte, 0x00
C13_RippleBigEndian ==
  C13_KeysRipple =>
    /\ Len(sent) = 2
    /\ SubSeq(sent[2], 10, 13)
         = <<0, C13_Period \div 256, C13_Period % 256, 0>>

\* a ripple of 4660 ms = 0x1234 on the G815 keys
C13_Witness ==
  /\ C13_KeysRipple
  /\ call.period = 4660
  /\ SubSeq(sent[2], 10, 13) = <<0, 18, 52, 0>>

\* the batch the last set_keys or set_group_keys call handed to set_keys
C14_Batch ==
  IF call.op = "set_keys" THEN call.keys ELSE GroupBatch(call.group, call.color)

C14_KeyCall ==
  /\ pc = "ran" /\ result = "Ok"
  /\ call.op \in {"set_keys", "set_group_keys"}
  /\ model = "G815"
  /\ C14_Batch # <<>>

\* identifier bytes of a G815 key report: those between the 7-byte header
\* and the 0xff sentinel (or the end of the report)
C14_IdCount(packet) ==
  CHOOSE n \in 0..13 :
    /\ \A j \in 1..n : packet[7 + j] # 255
    /\ n = 13 \/ packet[8 + n] = 255

RECURSIVE C14_IdTotal(_)
C14_IdTotal(packets) ==
  IF packets = <<>> THEN 0
  ELSE C14_IdCount(Head(packets)) + C14_IdTotal(Tail(packets))

\* C14 as stated: on the G815 path a batch of indicator keys (group 1) or of
\* G-keys (group 3) still yields a report, and no key of it contributes an
\* identifier byte
C14_AsClaimed ==
  \A g \in {1, 3} :
    (C14_KeyCall /\ SingleGroup(C14_Batch, g)) =>
      /\ Len(sent) >= 1
      /\ C14_IdTotal(sent) = 0

\* the keys g815_key_id has no identifier for
C14_Dropped ==
  {Key.Logo2, Key.Game, Key.Caps, Key.Scroll, Key.Num, Key.Stop,
   Key.G6, Key.G7, Key.G8, Key.G9}

\* C14 (amended): on the G815 path exactly the keys Logo2, Game, Caps, Scroll,
\* Num, Stop and G6..G9 contribute no identifier byte, and the builder still
\* returns a packet; every other key is encoded, in particular the indicator
\* Backlight (0x99) and the G-keys G1..G5 (0xb4..0xb8)
C14_DroppedKeys ==
  /\ \A k \in DOMAIN KeyIter :
       g815_key_id(KeyIter[k]).some <=> KeyIter[k] \notin C14_Dropped
  /\ g815_key_id(Key.Backlight) = Some(153)
  /\ <<g815_key_id(Key.G1), g815_key_id(Key.G2), g815_key_id(Key.G3),
       g815_key_id(Key.G4), g815_key_id(Key.G5)>>
       = <<Some(180), Some(181), Some(182), Some(183), Some(184)>>
  /\ C14_KeyCall =>
       /\ Len(sent) >= 1
       /\ C14_IdTotal(sent)
            = Len(SelectSeq(C14_Batch, LAMBDA kv : kv.key \notin C14_Dropped))
       /\ \A i \in 1..Len(C14_Batch) :
            set_keys_packet(model, <<C14_Batch[i]>>).some

\* the G-keys group set on a G815: nine keys, five identifiers
C14_Witness ==
  /\ C14_KeyCall
  /\ call.op = "set_group_keys"
  /\ call.group = KeyGroup.GKeys
  /\ Len(C14_Batch) = 9
  /\ Len(sent) = 1
  /\ SubSeq(sent[1], 8, 13) = <<180, 181, 182, 183, 184, 255>>

\* the value/model combinations the claim names as accepted
C15_Accepted ==
  CASE call.op \in {"set_mr_key", "set_gkeys_mode"} ->
         model \in {"G815", "G910"} /\ call.value \in {0, 1}
    [] call.op = "set_mn_key" ->
         \/ model = "G815" /\ call.value \in {1, 2, 3}
         \/ model = "G910" /\ call.value \in 0..7
    [] OTHER -> FALSE

\* the value byte (byte 4) the claim names
C15_Encoded ==
  IF call.op = "set_mn_key" /\ model = "G815"
  THEN (CASE call.value = 1 -> 1 [] call.value = 2 -> 2 [] call.value = 3 -> 4)
  ELSE call.value

\* C15: set_mr_key and set_gkeys_mode hand exactly one packet to the transport
\* iff the model is G815 or G910 and the value is 0 or 1; set_mn_key iff the
\* model is G815 and the value is 1, 2 or 3 (encoded 0x01, 0x02, 0x04) or the
\* model is G910 and the value is in 0..7 (encoded as it is); every other
\* combination sends nothing and returns Ok
C15_ModeKeys ==
  (pc = "ran" /\ call.op \in {"set_mr_key", "set_mn_key", "set_gkeys_mode"}) =>
    IF C15_Accepted
    THEN /\ Len(calls) = 1
         /\ Len(calls[1]) = 20
         /\ calls[1][5] = C15_Encoded
         /\ \A j \in 6..20 : calls[1][j] = 0
         /\ call.failAt = 0 => (result = "Ok" /\ sent = calls)
    ELSE calls = <<>> /\ sent = <<>> /\ result = "Ok"

\* M3 on a G815, sent as bit 0x04
C15_Witness ==
  /\ Completed("set_mn_key")
  /\ model = "G815"
  /\ call.value = 3
  /\ sent = <<pad(<<17, 255, 11, 28, 4>>, 20)>>

\* native_effect_packets for model m and part p with the remaining arguments
\* of the last set_fx call
C16_Packets(m, p) ==
  native_effect_packets(m, call.effect, p, call.period, call.color, call.storage)

\* C16: for G213 and G413 with part Logo native_effect_packets returns Some
\* of the empty packet list for every effect, for Unknown with part Keys or
\* Logo it returns None, and the two results differ; set_fx on a G213 or G413
\* logo therefore succeeds without a transport call
C16_EmptyIsNotNone ==
  (pc = "ran" /\ call.op = "set_fx") =>
    /\ \A m \in {"G213", "G413"} :
         /\ C16_Packets(m, NativeEffectPart.Logo).some
         /\ C16_Packets(m, NativeEffectPart.Logo).val = <<>>
    /\ \A p \in {NativeEffectPart.Keys, NativeEffectPart.Logo} :
         ~C16_Packets("Unknown", p).some
    /\ \A m \in {"G213", "G413"}, p \in {NativeEffectPart.Keys, NativeEffectPart.Logo} :
         C16_Packets(m, NativeEffectPart.Logo) # C16_Packets("Unknown", p)
    /\ (model \in {"G213", "G413"} /\ call.part = NativeEffectPart.Logo) =>
         (result = "Ok" /\ calls = <<>>)

\* a breathing effect on the logo of a G213: Some of nothing, nothing sent
C16_Witness ==
  /\ Completed("set_fx")
  /\ model = "G213"
  /\ call.part = NativeEffectPart.Logo
  /\ call.effect = NativeEffect.Breathing
  /\ C16_Packets(model, call.part) = Some(<<>>)
  /\ calls = <<>>

\* every capability field of a ModelSpec is absent
C17_AllAbsent(s) ==
  /\ s.commit = None /\ s.group_addresses = <<>> /\ s.effect_params = None
  /\ s.mr_header = None /\ s.mn_header = None /\ s.mn_map = None
  /\ s.gkeys_header = None /\ s.startup_header = None /\ s.onboard_header = None
  /\ s.keys_header = None /\ s.region_header = None

\* the table entry at a model's ordinal is that model's: it has the commit
\* header commit_packet sends and the effect register native_effect_packet uses
C17_OwnEntry(m) ==
  /\ spec(m).commit.some <=> commit_packet(m).some
  /\ spec(m).commit.some => pad(spec(m).commit.val, 20) = commit_packet(m).val
  /\ spec(m).effect_params = EffectRegister(m)

\* C17: MODEL_SPECS has one ModelSpec per KeyboardModel variant, at the
\* variant's ordinal, so spec(model) never indexes out of range; the entry of
\* Unknown has every capability absent, and commit_packet, set_keys_packet,
\* region_packet and native_effect_packet return None for Unknown
C17_OneSpecPerModel ==
  /\ Len(MODEL_SPECS) = Cardinality(KeyboardModel)
  /\ \A m \in KeyboardModel : ModelOrdinal(m) + 1 \in DOMAIN MODEL_SPECS
  /\ \A m, n \in KeyboardModel : m # n => ModelOrdinal(m) # ModelOrdinal(n)
  /\ ModelOrdinal("Unknown") = 0
  /\ \A m \in KeyboardModel : C17_OwnEntry(m)
  /\ C17_AllAbsent(spec("Unknown"))
  /\ commit_packet("Unknown") = None
  /\ pc = "ran" =>
       /\ set_keys_packet("Unknown", call.keys) = None
       /\ \A i \in 1..Len(call.keys) :
            set_keys_packet("Unknown", <<call.keys[i]>>) = None
       /\ region_packet("Unknown", call.value, call.color) = None
       /\ \A p \in {NativeEffectPart.Keys, NativeEffectPart.Logo, NativeEffectPart.All} :
            native_effect_packet("Unknown", call.effect, p, call.period, call.color,
                                 call.storage) = None

\* a batch a bound model builds a report from, and Unknown none
C17_Witness ==
  /\ Completed("set_keys")
  /\ model = "G910"
  /\ Len(call.keys) = 1
  /\ set_keys_packet(model, call.keys).some
  /\ set_keys_packet("Unknown", call.keys) = None
  /\ Len(sent) = 1

\* all keys of the enumeration whose scan code has high byte g, in
\* enumeration order, each paired with colour c
C18_GroupBatch(g, c) ==
  LET ks == SelectSeq(KeyIter, LAMBDA k : k \div 256 = g)
  IN [i \in 1..Len(ks) |-> [key |-> ks[i], color |-> c]]

\* number of packets the first n group batches of set_all_keys amount to
RECURSIVE C18_PlanLen(_)
C18_PlanLen(n) ==
  IF n = 0 THEN 0
  ELSE C18_PlanLen(n - 1)
         + Len(SetKeysPackets(model, C18_GroupBatch(n - 1, call.color)))

\* how often key k occurs in the batches handed to set_keys
C18_Occurrences(k) ==
  Cardinality({<<b, i>> \in (1..Len(batches)) \X (1..Len(KeyIter)) :
                 i <= Len(batches[b]) /\ batches[b][i].key = k})

\* C18: set_group_keys(g, color) calls set_keys once, with every Key of
\* address group g's ordinal paired with color; set_all_keys(color) calls
\* set_group_keys for the KeyGroups in enumeration order, so that on success
\* each Key has been handed to set_keys exactly once, and it makes no call
\* after the group in which a send failed
C18_GroupWrappers ==
  /\ (pc = "ran" /\ call.op = "set_group_keys") =>
       batches = <<C18_GroupBatch(call.group, call.color)>>
  /\ (pc = "ran" /\ call.op = "set_all_keys") =>
       /\ Len(batches) \in 1..10
       /\ \A n \in 1..Len(batches) : batches[n] = C18_GroupBatch(n - 1, call.color)
       /\ result = "Ok" =>
            /\ Len(batches) = 10
            /\ \A k \in DOMAIN KeyIter : C18_Occurrences(KeyIter[k]) = 1
       /\ call.failAt > 0 =>
            /\ result = "Err"
            /\ C18_PlanLen(Len(batches) - 1) < call.failAt
            /\ call.failAt <= C18_PlanLen(Len(batches))

\* set_all_keys whose second send failed: no group after that one is tried
C18_Witness ==
  /\ pc = "ran" /\ call.op = "set_all_keys"
  /\ model = "G810"
  /\ call.failAt = 2
  /\ result = "Err"
  /\ Len(batches) = 2
  /\ Len(batches[2]) = 5

\* the entries passed to set_keys by the calls of `log`, in call order
RECURSIVE C19_Passed(_)
C19_Passed(log) ==
  IF log = <<>> THEN <<>>
  ELSE (IF Head(log).op = "set_keys" THEN Head(log).args ELSE <<>>)
         \o C19_Passed(Tail(log))

\* the entries the `k` lines read so far have pushed, in line order
C19_Pushed == [i \in 1..Len(profile.pushed) |-> profile.pushed[i].kv]

\* the entries pushed by the lines in front of line n
C19_PushedBefore(n) ==
  LET before == SelectSeq(profile.pushed, LAMBDA p : p.line < n)
  IN [i \in 1..Len(before) |-> before[i].kv]

\* the part of a sequence in front of position i
C19_Front(s, i) == SubSeq(s, 1, i - 1)

\* `k` lines make no facade call
C19_KLinesOnlyBuffer ==
  \A i \in DOMAIN profile.log :
    profile.log[i].line # 0 => profile.input[profile.log[i].line].arm # "k"

\* every commit comes from a `c` line and is made when everything pushed in
\* front of that line has been passed to set_keys, in line order, by calls
\* that returned Ok; every set_keys call of a line comes from a `c` line,
\* passes a non-empty batch, and is followed by that line's commit if it
\* returned Ok
C19_FlushBeforeCommit ==
  \A i \in DOMAIN profile.log :
    /\ profile.log[i].op = "commit" =>
         /\ profile.input[profile.log[i].line].arm = "c"
         /\ C19_Passed(C19_Front(profile.log, i))
              = C19_PushedBefore(profile.log[i].line)
         /\ \A j \in 1..(i - 1) : profile.log[j].ok
    /\ (profile.log[i].op = "set_keys" /\ profile.log[i].line # 0) =>
         /\ profile.input[profile.log[i].line].arm = "c"
         /\ profile.log[i].args # <<>>
         /\ profile.log[i].ok =>
              /\ i < Len(profile.log)
              /\ profile.log[i + 1].op = "commit"
              /\ profile.log[i + 1].line = profile.log[i].line

\* while lines are read, every pushed entry has been passed once or is
\* still buffered, and the buffer is empty after a `c` line
C19_BufferedOrPassed ==
  profile.pc = "reading" =>
    /\ C19_Passed(profile.log) \o profile.keys = C19_Pushed
    /\ (profile.input # <<>> /\ profile.input[Len(profile.input)].arm = "c") =>
         profile.keys = <<>>

\* a non-empty buffer at the end of the input is passed in one final call
C19_FinalFlush ==
  (profile.pc = "returned" /\ profile.keys # <<>>
     /\ profile.error \in {"none", "facade"}
     /\ profile.log # <<>> /\ profile.log[Len(profile.log)].line = 0) =>
    profile.log[Len(profile.log)]
      = FacadeCall("set_keys", profile.keys, 0, profile.result = "Ok")

\* C19: in parse_profile a `k` line only buffers its key and colour; a `c`
\* line passes a non-empty buffer to set_keys in one call, in line order,
\* before it calls commit, and leaves the buffer empty; the end of the input
\* passes a non-empty buffer in one final call. Every entry pushed by a `k`
\* line is passed to set_keys at most once, and exactly once when
\* parse_profile returns Ok
C19_BufferedKeys ==
  /\ C19_KLinesOnlyBuffer
  /\ C19_FlushBeforeCommit
  /\ C19_BufferedOrPassed
  /\ C19_FinalFlush
  /\ profile.pc = "returned" =>
       /\ Len(C19_Passed(profile.log)) <= Len(C19_Pushed)
       /\ C19_Passed(profile.log)
            = SubSeq(C19_Pushed, 1, Len(C19_Passed(profile.log)))
       /\ profile.result = "Ok" => C19_Passed(profile.log) = C19_Pushed

\* C19 as stated: once parse_profile has returned, every entry pushed by a
\* `k` line has been passed to set_keys exactly once
C19_AsClaimed ==
  profile.pc = "returned" => C19_Passed(profile.log) = C19_Pushed

\* k, c, k and the end of the input: the first entry goes out in front of
\* the commit, the second in the final call
C19_Witness ==
  /\ profile.pc = "returned" /\ profile.result = "Ok"
  /\ Len(profile.input) = 3
  /\ profile.input[1].arm = "k" /\ profile.input[2].arm = "c"
  /\ profile.input[3].arm = "k"
  /\ Len(profile.pushed) = 2
  /\ Len(profile.log) = 3
  /\ profile.log[1].op = "set_keys" /\ profile.log[2].op = "commit"
  /\ profile.log[3].op = "set_keys" /\ profile.log[3].line = 0

\* the lines read so far that went to the default arm
C20_UnknownLines ==
  {n \in DOMAIN profile.input : profile.input[n].arm = "unknown"}

\* no facade call was made for line n
C20_NoCallFor(n) == \A i \in DOMAIN profile.log : profile.log[i].line # n

\* parse_profile returned with something other than an unknown command
\* having failed: a facade call returned an error or an index panicked
C20_OtherFailure ==
  \/ profile.result = "Panic"
  \/ \E i \in DOMAIN profile.log : ~profile.log[i].ok

\* C20: a line with an unknown command makes no facade call; when strict is
\* true it is the last line read and parse_profile returns the "unknown
\* command" error with no facade call for a later line or for the end of
\* the input; when strict is false reading continues with the next line and
\* parse_profile returns Ok unless something else fails
C20_UnknownCommand ==
  /\ \A n \in C20_UnknownLines :
       /\ C20_NoCallFor(n)
       /\ profile.strict =>
            /\ n = Len(profile.input)
            /\ profile.pc = "returned"
            /\ profile.result = "Err"
            /\ profile.error = "unknown command"
            /\ \A i \in DOMAIN profile.log :
                 profile.log[i].line \in 1..(n - 1)
       /\ (~profile.strict /\ n = Len(profile.input)
             /\ profile.result = "none") => profile.pc = "reading"
  /\ ~profile.strict =>
       /\ profile.error # "unknown command"
       /\ (profile.pc = "returned" /\ ~C20_OtherFailure) =>
            profile.result = "Ok"
  /\ profile.error = "unknown command" =>
       Len(profile.input) \in C20_UnknownLines

\* a `k` line and then an unknown command under strict: the error is
\* returned and the buffered key is not passed on
C20_Witness ==
  /\ profile.strict
  /\ profile.pc = "returned" /\ profile.error = "unknown command"
  /\ Len(profile.input) = 2
  /\ profile.input[2].words = <<"bogus">>
  /\ profile.keys # <<>>
  /\ profile.log = <<>>

\* an unknown command between two working lines when strict is false
C20_WitnessLenient ==
  /\ ~profile.strict
  /\ profile.pc = "returned" /\ profile.result = "Ok"
  /\ Len(profile.input) = 3
  /\ profile.input[2].words = <<"bogus">>
  /\ Len(profile.log) = 2
  /\ profile.log[1].line = 1 /\ profile.log[2].line = 3

\* the key slots of the reports `packets`, header bytes 1..8 left out, one
\* report after the other
RECURSIVE C22_Slots(_)
C22_Slots(packets) ==
  IF packets = <<>> THEN <<>>
  ELSE SubSeq(Head(packets), 9, Len(Head(packets))) \o C22_Slots(Tail(packets))

\* the entries of the batch that lie in address group g, in batch order
C22_Entries(g) == SelectSeq(call.keys, LAMBDA kv : kv.key \div 256 = g)

\* C22: after set_keys on a model that takes generic key reports, for every
\* address group the model has a header for, the key slots of the group's
\* reports, read in the order sent, hold the group's batch entries in batch
\* order, each once, followed by nothing but zero bytes
C22_ChunkingKeepsKeys ==
  (Completed("set_keys") /\ model \in GenericModels) =>
    \A g \in AddressGroups :
      group_address(model, g).some =>
        /\ Len(C22_Slots(C11_Packets(g))) >= 4 * Len(C22_Entries(g))
        /\ SubSeq(C22_Slots(C11_Packets(g)), 1, 4 * Len(C22_Entries(g)))
             = KeyQuads(C22_Entries(g))
        /\ \A i \in (4 * Len(C22_Entries(g)) + 1)..Len(C22_Slots(C11_Packets(g))) :
             C22_Slots(C11_Packets(g))[i] = 0
        /\ Len(C22_Slots(C11_Packets(g))) < 4 * (Len(C22_Entries(g)) + MaxKeys(g))

\* fifteen keys of group 4 behind a logo key: two reports for group 4, the
\* fifteenth key alone in the second
C22_Witness ==
  /\ Completed("set_keys")
  /\ model = "G810"
  /\ Len(call.keys) = 16
  /\ call.keys[1].key = Key.Logo
  /\ Len(C22_Entries(4)) = 15
  /\ Len(C11_Packets(4)) = 2
  /\ C11_Packets(4)[2][9] = KeyLow(C22_Entries(4)[15].key)
  /\ C11_Packets(4)[2][13] = 0

\* the header the ModelSpec table of model m lists for address group g
C24_TableAddress(m, g) ==
  IF \E i \in DOMAIN spec(m).group_addresses : spec(m).group_addresses[i][1] = g
  THEN Some(spec(m).group_addresses[
              CHOOSE i \in DOMAIN spec(m).group_addresses :
                spec(m).group_addresses[i][1] = g][2])
  ELSE None

\* the key-report headers of the builders are those of the table
C24_SameAddresses ==
  \A m \in KeyboardModel, g \in AddressGroups :
    group_address(m, g) = C24_TableAddress(m, g)

\* the commit header of the builder is that of the table
C24_SameCommit ==
  \A m \in KeyboardModel :
    commit_packet(m)
      = IF spec(m).commit.some THEN Some(pad(spec(m).commit.val, 20)) ELSE None

\* the effect register pair of the builder is that of the table
C24_SameEffectParams ==
  \A m \in KeyboardModel : EffectRegister(m) = spec(m).effect_params

\* set_startup_mode sends a report for the models with a startup header
C24_SameStartup ==
  \A m \in KeyboardModel :
    startup_mode_packet(m, StartupMode.Wave).some = spec(m).startup_header.some

\* C24: the ModelSpec table and the packet builders describe one protocol:
\* for every model the key-report header of every address group, the commit
\* header, the effect register pair and the presence of a startup report
\* are the same in both
C24_TableMatchesBuilders ==
  /\ C24_SameAddresses
  /\ C24_SameCommit
  /\ C24_SameEffectParams
  /\ C24_SameStartup

\* a G410 key report for address group 4: sent under a header the table
\* does not list for that group
C24_Witness ==
  /\ Completed("set_keys")
  /\ model = "G410"
  /\ Len(sent) = 1
  /\ KeyGroupOf(call.keys[1].key) = 4
  /\ C24_TableAddress("G410", 4).some
  /\ SubSeq(sent[1], 1, 8) # C24_TableAddress("G410", 4).val

\* C25: every KeyGroup resolves through KeyGroup::keys to at least one Key,
\* and the batch set_group_keys passes to set_keys is never empty
C25_EveryGroupHasKeys ==
  /\ \A g \in DOMAIN KeyGroupIter : KeyGroupKeys(KeyGroupIter[g]) # <<>>
  /\ (pc = "ran" /\ call.op = "set_group_keys") =>
       (Len(batches) = 1 /\ batches[1] # <<>>)

\* set_group_keys(Keys, ..) on a G810: an empty batch goes to set_keys and
\* nothing is sent
C25_Witness ==
  /\ pc = "ran" /\ call.op = "set_group_keys"
  /\ model = "G810"
  /\ call.group = KeyGroup.Keys
  /\ batches = << <<>> >>
  /\ sent = <<>>
  /\ result = "Ok"

\* C26: parse_profile returns Ok or Err for every sequence of lines and
\* never indexes past the words of a line; a line that is only the command
\* word a, mr, mn, gkm, sm or obm is read without an out-of-bounds access
C26_NoIndexOutOfBounds ==
  /\ profile.result # "Panic"
  /\ profile.pc = "returned" => profile.result \in {"Ok", "Err"}
  /\ \A n \in DOMAIN profile.input :
       (Len(profile.input[n].words) = 1
          /\ profile.input[n].words[1] \in {"a", "mr", "mn", "gkm", "sm", "obm"})
         => profile.error # "index out of bounds"

\* the line `a` after a working line: the call ends in a panic on args[1]
C26_Witness ==
  /\ profile.pc = "returned"
  /\ profile.result = "Panic"
  /\ Len(profile.input) = 2
  /\ profile.input[1].arm = "k"
  /\ profile.input[2].words = <<"a">>
  /\ profile.log = <<>>

\* the facade operations of the lines a, g, r and fx
C27_ImmediateOps == {"set_all_keys", "set_group_keys", "set_region", "set_fx"}

\* pushed entry q has been passed to set_keys by a call in front of call i
C27_PassedBefore(q, i) == q <= Len(C19_Passed(C19_Front(profile.log, i)))

\* a `c` line lies between line n and line m
C27_CommitBetween(n, m) ==
  \E j \in DOMAIN profile.input : n < j /\ j < m /\ profile.input[j].arm = "c"

\* C27: the calls parse_profile makes are in line order, the final set_keys
\* last; the entry of a `k` line is passed to set_keys in front of the call
\* of a later a, g, r or fx line exactly when a `c` line lies between the
\* two lines, and otherwise only after it, at the next `c` line or at the
\* end of the input
C27_BufferedKeysGoLater ==
  /\ \A i, j \in DOMAIN profile.log :
       i < j => /\ profile.log[i].line # 0
                /\ profile.log[j].line # 0 =>
                     profile.log[i].line <= profile.log[j].line
  /\ \A q \in DOMAIN profile.pushed, i \in DOMAIN profile.log :
       (profile.log[i].op \in C27_ImmediateOps
          /\ profile.pushed[q].line < profile.log[i].line) =>
         (C27_PassedBefore(q, i)
            <=> C27_CommitBetween(profile.pushed[q].line, profile.log[i].line))

\* C27 as stated: the entry of a `k` line has been passed to set_keys when
\* the call of a later a, g, r or fx line is made
C27_AsClaimed ==
  \A q \in DOMAIN profile.pushed, i \in DOMAIN profile.log :
    (profile.log[i].op \in C27_ImmediateOps
       /\ profile.pushed[q].line < profile.log[i].line) =>
      C27_PassedBefore(q, i)

\* k, a and the end of the input: set_all_keys is called first, the key of
\* the earlier line goes out in the final set_keys
C27_Witness ==
  /\ profile.pc = "returned" /\ profile.result = "Ok"
  /\ Len(profile.input) = 2
  /\ profile.input[1].arm = "k" /\ profile.input[2].arm = "a"
  /\ Len(profile.log) = 2
  /\ profile.log[1].op = "set_all_keys" /\ profile.log[1].line = 2
  /\ profile.log[2].op = "set_keys" /\ profile.log[2].line = 0
  /\ profile.log[2].args = <<profile.pushed[1].kv>>

\* the keys g815_key_id translates
C29_Translated == {k \in DOMAIN KeyIter : g815_key_id(KeyIter[k]).some}

\* g815_key_id gives different keys different identifiers
C29_Injective ==
  \A a, b \in C29_Translated :
    g815_key_id(KeyIter[a]).val = g815_key_id(KeyIter[b]).val => a = b

\* no identifier is the padding byte or the sentinel
C29_NoReservedId ==
  \A a \in C29_Translated : g815_key_id(KeyIter[a]).val \in 1..254

\* the identifiers report `packet` carries, read up to the sentinel or the
\* first padding byte
C29_IdCount(packet) ==
  Cardinality({i \in 8..20 : \A j \in 8..i : packet[j] \notin {0, 255}})

\* the identifiers all reports of `packets` carry
RECURSIVE C29_IdTotal(_)
C29_IdTotal(packets) ==
  IF packets = <<>> THEN 0
  ELSE C29_IdCount(Head(packets)) + C29_IdTotal(Tail(packets))

\* the reports of a completed set_keys carry one identifier for every
\* batch entry whose key is translated
C29_AllIdsReadable ==
  (Completed("set_keys") /\ model = "G815") =>
    C29_IdTotal(sent) = Len(G815KeyIds(call.keys))

\* C29: on the G815, g815_key_id is injective on the keys it translates and
\* yields neither 0x00 nor 0xff; in every key report sent the identifiers
\* stand from byte 8 on, the sentinel 0xff follows the last of them exactly
\* when there are fewer than 13, and every byte after that up to byte 20 is
\* zero
C29_UnambiguousIds ==
  /\ C29_Injective
  /\ C29_NoReservedId
  /\ C29_AllIdsReadable
  /\ (pc = "ran" /\ call.op = "set_keys" /\ model = "G815") =>
       \A p \in DOMAIN sent :
         /\ Len(sent[p]) = 20
         /\ C29_IdCount(sent[p]) < 13 =>
              /\ sent[p][8 + C29_IdCount(sent[p])] = 255
              /\ \A j \in (9 + C29_IdCount(sent[p]))..20 : sent[p][j] = 0
         /\ C29_IdCount(sent[p]) = 13 => sent[p][20] \notin {0, 255}

\* fifteen keys of one colour on the G815: a report of 13 identifiers and no
\* sentinel, then a report of two identifiers, the sentinel and padding
C29_Witness ==
  /\ Completed("set_keys") /\ model = "G815"
  /\ Len(call.keys) = 15
  /\ Len(sent) = 2
  /\ C29_IdCount(sent[1]) = 13
  /\ C29_IdCount(sent[2]) = 2
  /\ sent[2][10] = 255
  /\ sent[2][11] = 0

\* C30: every buffer a facade operation hands to send_packet is 20 or 64
\* bytes long and starts with the report id the libusb transport derives
\* from its length: 0x11 (wValue 0x0211) for 20 bytes, 0x12 (wValue 0x0212)
\* for 64 bytes
C30_ReportIdMatchesLength ==
  \A i \in DOMAIN calls :
    /\ Len(calls[i]) \in {20, 64}
    /\ calls[i][1] = wValue(calls[i]) % 256
    /\ wValue(calls[i]) \div 256 = 2
    /\ Len(calls[i]) = 20 => (calls[i][1] = 17 /\ wValue(calls[i]) = 529)
    /\ Len(calls[i]) = 64 => (calls[i][1] = 18 /\ wValue(calls[i]) = 530)

\* a batch over the libusb backend with a short and a long report
C30_Witness ==
  /\ Completed("set_keys")
  /\ backend = "libusb"
  /\ Len(sent) = 2
  /\ Len(sent[1]) = 20 /\ sent[1][1] = 17
  /\ Len(sent[2]) = 64 /\ sent[2][1] = 18

(* ------------------------------------------------------------------ *)
(* C21                                                                *)
(* ------------------------------------------------------------------ *)
\* the order in which apply_toml_profile goes through a Profile
C21_Order ==
  <<"set_all_keys", "set_group_keys", "set_keys", "set_region", "set_fx",
    "set_mr_key", "set_mn_key", "set_gkeys_mode", "set_startup_mode",
    "set_on_board_mode", "commit">>

C21_Rank(op) == CHOOSE i \in 1..Len(C21_Order) : C21_Order[i] = op

\* the number of calls of op in the log
C21_Count(op) == Cardinality({i \in 1..Len(toml.log) : toml.log[i].op = op})

\* the number of calls of each facade operation a Profile asks for
C21_Asked(p) ==
  [op \in {C21_Order[i] : i \in 1..Len(C21_Order)} |->
     CASE op = "set_all_keys" ->
            IF p.all.some /\ parse_color(p.all.val).some THEN 1 ELSE 0
       [] op = "set_group_keys" ->
            Cardinality({i \in 1..Len(p.groups) :
              /\ parse_key_group(p.groups[i].group).some
              /\ parse_color(p.groups[i].color).some})
       [] op = "set_keys" ->
            IF \E i \in 1..Len(p.key) :
                 /\ parse_key(p.key[i].key).some
                 /\ parse_color(p.key[i].color).some
            THEN 1 ELSE 0
       [] op = "set_region" ->
            Cardinality({i \in 1..Len(p.regions) :
              /\ parse_u8(p.regions[i].region).some
              /\ parse_color(p.regions[i].color).some})
       [] op = "set_fx" ->
            Cardinality({i \in 1..Len(p.effects) :
              /\ parse_native_effect(p.effects[i].effect).some
              /\ parse_native_effect_part(p.effects[i].part).some})
       [] op = "set_mr_key" -> IF p.mr.some THEN 1 ELSE 0
       [] op = "set_mn_key" -> IF p.mn.some THEN 1 ELSE 0
       [] op = "set_gkeys_mode" -> IF p.gkeys_mode.some THEN 1 ELSE 0
       [] op = "set_startup_mode" ->
            IF /\ p.startup_mode.some
               /\ parse_startup_mode(p.startup_mode.val).some THEN 1 ELSE 0
       [] op = "set_on_board_mode" ->
            IF /\ p.on_board_mode.some
               /\ parse_board_mode(p.on_board_mode.val).some THEN 1 ELSE 0
       [] op = "commit" -> 1]

\* C21: apply_toml_profile makes its facade calls in the order all, groups,
\* keys (one set_keys call for all of them), regions, effects, mr, mn,
\* gkeys_mode, startup_mode, on_board_mode, commit; when all succeed it makes
\* every call the Profile asks for and commit once, as the last call; a call
\* that fails is the last one made (so no commit follows) and the error is
\* returned.
C21_FixedOrderThenCommit ==
  (toml.pc = "returned" /\ (toml.result = "Ok" \/ toml.log # <<>>)) =>
    /\ \A i \in 1..Len(toml.log) : \A j \in 1..Len(toml.log) :
         i < j => C21_Rank(toml.log[i].op) <= C21_Rank(toml.log[j].op)
    /\ C21_Count("set_keys") <= 1
    /\ C21_Count("commit") <= 1
    /\ \A i \in 1..Len(toml.log) :
         /\ toml.log[i].op = "commit" => i = Len(toml.log)
         /\ ~toml.log[i].ok => i = Len(toml.log) /\ toml.result = "Err"
         /\ C21_Count(toml.log[i].op) <= C21_Asked(toml.profile)[toml.log[i].op]
    /\ toml.result = "Ok" =>
         /\ \A i \in 1..Len(C21_Order) :
              C21_Count(C21_Order[i]) = C21_Asked(toml.profile)[C21_Order[i]]
         /\ toml.log[Len(toml.log)].op = "commit"
         /\ \A i \in 1..Len(toml.log) : toml.log[i].ok
    /\ toml.result = "Err" => ~toml.log[Len(toml.log)].ok
    /\ \A i \in 1..Len(toml.log) :
         toml.log[i].op = "set_keys" =>
           Len(toml.log[i].args) =
             Cardinality({k \in 1..Len(toml.profile.key) :
               /\ parse_key(toml.profile.key[k].key).some
               /\ parse_color(toml.profile.key[k].color).some})

\* a Profile with every kind of setting is applied and set_region fails: the
\* calls before it were made, none after it, and no commit
C21_Witness ==
  /\ toml.pc = "returned"
  /\ toml.result = "Err"
  /\ Len(toml.log) = 5
  /\ [i \in 1..5 |-> toml.log[i].op] =
       <<"set_all_keys", "set_group_keys", "set_group_keys", "set_keys",
         "set_region">>
  /\ Len(toml.log[4].args) = 2
  /\ toml.profile.effects # <<>>
  /\ toml.profile.mr.some

(* ------------------------------------------------------------------ *)
(* C23                                                                *)
(* ------------------------------------------------------------------ *)
\* the number of calls of a libusb function on interface 1
C23_Count(fn) ==
  Cardinality({i \in 1..Len(session.usb) : session.usb[i] = fn})

\* the calls open makes on the handle it selected, by what
\* kernel_driver_active(1) reported
C23_OpenCalls ==
  IF session.env.driver = "active"
  THEN <<"detach_kernel_driver", "claim_interface">>
  ELSE <<"claim_interface">>

\* the calls the first close makes
C23_CloseCalls ==
  IF session.env.driver = "active"
  THEN <<"release_interface", "attach_kernel_driver">>
  ELSE <<"release_interface">>

\* C23: in the libusb backend open detaches the kernel driver of interface 1
\* iff kernel_driver_active(1) reported it active (a failed query counts as
\* not active) and then claims the interface; the first close of the
\* Keyboard releases the interface and re-attaches the driver iff open
\* detached it; a later close, or the drop after a close, makes no call.
\* The hidapi backend makes none of these calls.
C23_DetachAndReattach ==
  /\ session.backend = "hid" => session.usb = <<>>
  /\ (session.backend = "libusb" /\ session.kbd = "none") =>
       session.usb \in {<<>>, C23_OpenCalls}
  /\ (session.backend = "libusb" /\ session.kbd # "none") =>
       /\ session.kernel_detached = (session.env.driver = "active")
       /\ session.usb =
            IF session.handle THEN C23_OpenCalls
            ELSE C23_OpenCalls \o C23_CloseCalls
       /\ session.handle => session.closes = 0 /\ session.kbd = "open"
       /\ session.closes > 0 => ~session.handle
  /\ C23_Count("release_interface") <= 1
  /\ C23_Count("attach_kernel_driver") <= C23_Count("detach_kernel_driver")

\* a libusb Keyboard whose interface had the kernel driver bound was opened
\* and closed twice: one detach, one claim, one release, one attach
C23_Witness ==
  /\ session.pc = "object"
  /\ session.backend = "libusb"
  /\ session.kbd = "open"
  /\ session.closes = 2
  /\ session.env.driver = "active"
  /\ session.usb =
       <<"detach_kernel_driver", "claim_interface", "release_interface",
         "attach_kernel_driver">>

(* ------------------------------------------------------------------ *)
(* C28                                                                *)
(* ------------------------------------------------------------------ *)
\* the product ids lookup_model is asked about
C28_Pids == {0, 1, 49969, 49983}

\* C28: whenever with_keyboard has returned, the override it may have set
\* is cleared, so lookup_model resolves against SUPPORTED_KEYBOARDS; while
\* an override is set, lookup_model consults only the override list.
C28_OverrideClearedOnReturn ==
  /\ session.pc = "returned" =>
       /\ ~session.override.some
       /\ \A p \in C28_Pids :
            lookup_model(session.override, LOGITECH_VENDOR_ID, p) =
              FindModel(SUPPORTED_KEYBOARDS, LOGITECH_VENDOR_ID, p)
  /\ session.override.some =>
       \A p \in C28_Pids :
         lookup_model(session.override, LOGITECH_VENDOR_ID, p) =
           FindModel(session.override.val, LOGITECH_VENDOR_ID, p)

\* the part of C28 that holds: the override is cleared whenever with_keyboard
\* returns after Keyboard::open succeeded, and a set override is the only
\* list consulted
C28_ClearedAfterOpen ==
  /\ (session.pc = "returned" /\ session.kbd # "none") =>
       ~session.override.some
  /\ session.override.some =>
       \A p \in C28_Pids :
         lookup_model(session.override, LOGITECH_VENDOR_ID, p) =
           FindModel(session.override.val, LOGITECH_VENDOR_ID, p)

\* with_keyboard(None, None, Some(1), ..) with a G810 on the bus: the
\* override (0x046d, 0, G810) hides the device, Keyboard::open fails, and
\* with_keyboard returns the error with the override still set, under which
\* the G810's identity resolves to Unknown
C28_Witness ==
  /\ session.pc = "returned"
  /\ session.result = "Err"
  /\ session.kbd = "none"
  /\ session.args.protocol = Some(1)
  /\ ~session.args.product_id.some
  /\ session.env.device = Some([vid |-> 1133, pid |-> 49969, serial |-> "sn1"])
  /\ session.env.open_ok
  /\ session.override = Some(<<<<1133, 0, "G810">>>>)
  /\ lookup_model(session.override, 1133, 49969) = "Unknown"
  /\ FindModel(SUPPORTED_KEYBOARDS, 1133, 49969) = "G810"

====
